---- MODULE Spec2Model ----
(***************************************************************************)
(* A model of StillWeb, a static-site build pipeline: the URL algebra of   *)
(* sw_urllib.py, the tag-soup parser of TagSoupToXml.py, the namespace     *)
(* normalizer of NamespaceNormalization.py, the link rewriter of           *)
(* LinkRewriter.py, and the incremental build and cache stages of          *)
(* PageGenerator.py, FeedGenerator.py, NewsPlugin.py and TeXPlugin.py.     *)
(*                                                                         *)
(* Text is modelled as a sequence of one-character strings, so that the    *)
(* parsing, splitting and joining the code does on URLs is computed the    *)
(* way the code computes it.                                               *)
(***************************************************************************)
EXTENDS Integers, Sequences, FiniteSets, TLC

(***************************************************************************)
(* Python string primitives on character sequences.                        *)
(***************************************************************************)

\* The least and the greatest of a set of indices, or 0 (the code's -1)
First(hits) == IF hits = {} THEN 0 ELSE CHOOSE i \in hits : \A j \in hits : i <= j
Final(hits) == IF hits = {} THEN 0 ELSE CHOOSE i \in hits : \A j \in hits : i >= j

\* s.find(c, from): the least index >= from holding c, or 0 (1-based)
Find(s, c, from) == First({i \in from..Len(s) : s[i] = c})

\* s.rfind(c): the greatest index holding c, or 0
RFind(s, c) == Final({i \in 1..Len(s) : s[i] = c})

\* c in s
Contains(s, c) == \E i \in 1..Len(s) : s[i] = c

\* s[from:] with a 1-based from
From(s, from) == SubSeq(s, from, Len(s))

\* s.startswith(p) and s.endswith(p)
StartsWith(s, p) == Len(s) >= Len(p) /\ SubSeq(s, 1, Len(p)) = p
EndsWith(s, p) == Len(s) >= Len(p) /\ SubSeq(s, Len(s) - Len(p) + 1, Len(s)) = p

\* s.split(c): always at least one piece
RECURSIVE Split(_, _)
Split(s, c) ==
    LET at(i) == IF i = 0 THEN << s >>
                 ELSE << SubSeq(s, 1, i - 1) >> \o Split(From(s, i + 1), c)
    IN  at(Find(s, c, 1))

\* c.join(pieces)
RECURSIVE Join(_, _)
Join(pieces, c) ==
    IF pieces = << >> THEN << >>
    ELSE IF Len(pieces) = 1 THEN pieces[1]
    ELSE pieces[1] \o << c >> \o Join(Tail(pieces), c)

\* s.lstrip(c), s.rstrip(c), s.strip(c)
RECURSIVE LStrip(_, _)
LStrip(s, c) == IF s # << >> /\ s[1] = c THEN LStrip(Tail(s), c) ELSE s
RECURSIVE RStrip(_, _)
RStrip(s, c) ==
    IF s # << >> /\ s[Len(s)] = c THEN RStrip(SubSeq(s, 1, Len(s) - 1), c) ELSE s
Strip(s, c) == RStrip(LStrip(s, c), c)

\* del lst[i]
RemoveAt(lst, i) == SubSeq(lst, 1, i - 1) \o SubSeq(lst, i + 1, Len(lst))

\* lst[-1]
Last(lst) == lst[Len(lst)]

\* [x for x in lst if x], as filter(None, lst) computes it
RECURSIVE FilterNonEmpty(_)
FilterNonEmpty(lst) ==
    IF lst = << >> THEN << >>
    ELSE (IF lst[1] = << >> THEN << >> ELSE << lst[1] >>) \o FilterNonEmpty(Tail(lst))

(***************************************************************************)
(* urllib.parse, as sw_urllib.py uses it: urlparse, urlunparse, urljoin.   *)
(***************************************************************************)

\* The characters a scheme name is made of, and the letters among them
\* (the model's text is lower case).
Letters ==
    {"a", "b", "c", "d", "e", "f", "g", "h", "i", "j", "k", "l", "m",
     "n", "o", "p", "q", "r", "s", "t", "u", "v", "w", "x", "y", "z"}
Digits == {"0", "1", "2", "3", "4", "5", "6", "7", "8", "9"}
scheme_chars == Letters \cup Digits \cup {"+", "-", "."}

uses_relative ==
    {
      <<>>, <<"f", "t", "p">>, <<"h", "t", "t", "p">>, <<"g", "o", "p", "h", "e", "r">>,
      <<"n", "n", "t", "p">>, <<"i", "m", "a", "p">>, <<"w", "a", "i", "s">>, <<"f", "i", "l", "e">>,
      <<"h", "t", "t", "p", "s">>, <<"s", "h", "t", "t", "p">>, <<"m", "m", "s">>, <<"p", "r", "o", "s", "p", "e", "r", "o">>,
      <<"r", "t", "s", "p">>, <<"r", "t", "s", "p", "s">>, <<"r", "t", "s", "p", "u">>, <<"s", "f", "t", "p">>,
      <<"s", "v", "n">>, <<"s", "v", "n", "+", "s", "s", "h">>, <<"w", "s">>, <<"w", "s", "s">>
    }

uses_netloc ==
    {
      <<>>, <<"f", "t", "p">>, <<"h", "t", "t", "p">>, <<"g", "o", "p", "h", "e", "r">>,
      <<"n", "n", "t", "p">>, <<"t", "e", "l", "n", "e", "t">>, <<"i", "m", "a", "p">>, <<"w", "a", "i", "s">>,
      <<"f", "i", "l", "e">>, <<"m", "m", "s">>, <<"h", "t", "t", "p", "s">>, <<"s", "h", "t", "t", "p">>,
      <<"s", "n", "e", "w", "s">>, <<"p", "r", "o", "s", "p", "e", "r", "o">>, <<"r", "t", "s", "p">>, <<"r", "t", "s", "p", "s">>,
      <<"r", "t", "s", "p", "u">>, <<"r", "s", "y", "n", "c">>, <<"s", "v", "n">>, <<"s", "v", "n", "+", "s", "s", "h">>,
      <<"s", "f", "t", "p">>, <<"n", "f", "s">>, <<"g", "i", "t">>, <<"g", "i", "t", "+", "s", "s", "h">>,
      <<"w", "s">>, <<"w", "s", "s">>
    }

uses_params ==
    {
      <<>>, <<"f", "t", "p">>, <<"h", "d", "l">>, <<"p", "r", "o", "s", "p", "e", "r", "o">>,
      <<"h", "t", "t", "p">>, <<"i", "m", "a", "p">>, <<"h", "t", "t", "p", "s">>, <<"s", "h", "t", "t", "p">>,
      <<"r", "t", "s", "p">>, <<"r", "t", "s", "p", "s">>, <<"r", "t", "s", "p", "u">>, <<"s", "i", "p">>,
      <<"s", "i", "p", "s">>, <<"m", "m", "s">>, <<"s", "f", "t", "p">>, <<"t", "e", "l">>
    }

(***************************************************************************)
(* State.  The URL algebra is a set of pure functions: u_op names the last *)
(* function applied, u_url, u_base, u_target and u_fake hold its           *)
(* arguments, u_flags the keyword arguments given as True, and u_result    *)
(* what it returned.                                                       *)
(***************************************************************************)
VARIABLES u_op, u_url, u_base, u_target, u_fake, u_flags, u_result

urlVars == << u_op, u_url, u_base, u_target, u_fake, u_flags, u_result >>

(***************************************************************************)
(* The parser's state: the fields reset() initialises, the constructor's   *)
(* omit_comments, the number of tokens fed, whether close() has run, and   *)
(* what toxml() returned.                                                  *)
(***************************************************************************)
VARIABLES tagstack, output_buffer, html_tag, head_tag, head_content,
          body_tag, body_content, omit_comments, fed, closed, xml

soupVars == << tagstack, output_buffer, html_tag, head_tag, head_content,
               body_tag, body_content, omit_comments, fed, closed, xml >>

(***************************************************************************)
(* The document the normalizer works on: dom is the branch, strip_dups the *)
(* setting of the calls, ns_calls the elements normalize_namespaces has    *)
(* been called on so far, dom_before the branch before the last call, and  *)
(* ns_error the exception of the last call ("none" when it returned).      *)
(***************************************************************************)
VARIABLES dom, strip_dups, ns_calls, dom_before, ns_error

nsVars == << dom, strip_dups, ns_calls, dom_before, ns_error >>

(***************************************************************************)
(* The build: PageGenerator.py, FeedGenerator.py and NewsPlugin.py.        *)
(*                                                                         *)
(* A script is a sequence of commands; a run executes them in order and    *)
(* stops at the first exception.  A file is a record of its state (absent, *)
(* partial: created but not completely written, complete) and its          *)
(* modification time; now is the clock the modification times come from.   *)
(* pc is the step the run performs next: "stopped" when no run is going    *)
(* on, "next" between two commands, else the stage of the command cmd.     *)
(***************************************************************************)
VARIABLES fs, data_dir, now, plugins, script, source_mtime, feed_url,
          run, cmd, pc, outcomes, history, had_output

buildVars == << fs, data_dir, now, plugins, script, source_mtime, feed_url,
                run, cmd, pc, outcomes, history, had_output >>

(***************************************************************************)
(* TeXPlugin.py: math_placeholder and its cache.                           *)
(*                                                                         *)
(* The cache is the files of the intermediate directory: orig_sums maps    *)
(* the md5 of a piece of TeX code to its canonical md5 (the                *)
(* texvc-original-*-sum files), results maps a canonical md5 to the        *)
(* pickled result (texvc-canonical-*-result), stamps holds the canonical   *)
(* md5s that have a stamp file, and pngs the canonical md5s whose image    *)
(* exists in the output directory.  texvc_runs lists the code of every     *)
(* call of run_texvc, tex_calls what every finished call of                *)
(* math_placeholder was given and how it ended.  files_at_call keeps the    *)
(* cache files as the latest call of math_placeholder found them.          *)
(***************************************************************************)
VARIABLES orig_sums, results, stamps, pngs, texvc_runs, tex_calls,
          tex_pc, latex_code, canonical_md5, result, files_at_call

texVars == << orig_sums, results, stamps, pngs, texvc_runs, tex_calls,
              tex_pc, latex_code, canonical_md5, result, files_at_call >>

(***************************************************************************)
(* NamespaceScope objects on their own: scopes holds two objects, each the *)
(* record of its two dicts, and scope_ops counts the operations applied to *)
(* them.                                                                   *)
(***************************************************************************)
VARIABLES scopes, scope_ops

scopeVars == << scopes, scope_ops >>

(***************************************************************************)
(* LinkRewriter.py on a document: lr_doc is the root element, lr_criteria  *)
(* the match criteria, lr_before the root before rewrite_links ran,        *)
(* lr_calls the calls of the callback (the URL and the criterion of each), *)
(* and lr_done tells that rewrite_links has returned.                      *)
(***************************************************************************)
VARIABLES lr_doc, lr_criteria, lr_before, lr_calls, lr_done

lrVars == << lr_doc, lr_criteria, lr_before, lr_calls, lr_done >>

(***************************************************************************)
(* Placeholders.py: element_callbacks and namespace_callbacks are the two  *)
(* registries of the plugin, ph_error the outcome of the last              *)
(* register_callback, ph_registrations the number of calls made,           *)
(* ph_content the document element of page_generator.content, ph_before    *)
(* the same before the placeholder pass, ph_calls the calls of callbacks   *)
(* (the callback and the id of the element), and ph_done tells that the    *)
(* pass has run.                                                           *)
(***************************************************************************)
VARIABLES element_callbacks, namespace_callbacks, ph_error, ph_registrations, ph_content, ph_before, ph_calls, ph_done

phVars == << element_callbacks, namespace_callbacks, ph_error, ph_registrations, ph_content, ph_before, ph_calls, ph_done >>

(***************************************************************************)
(* MyFilters._filter_copy_head: head_src is the children of the head of    *)
(* pg.content, head_filtered the names the generate_page:filter_head       *)
(* filters remove, head_tmp the children of the imported head, head_dest   *)
(* the children of the head of pg.page, head_error the exception of the    *)
(* filter, and head_done tells that the filter has run.                    *)
(***************************************************************************)
VARIABLES head_src, head_filtered, head_tmp, head_dest, head_error, head_done

headVars == << head_src, head_filtered, head_tmp, head_dest, head_error, head_done >>

\* All the state, and for each subsystem the state of the others, which
\* its operations leave alone
vars == << urlVars, soupVars, nsVars, buildVars, texVars, scopeVars, lrVars, phVars, headVars >>
notUrlVars == << soupVars, nsVars, buildVars, texVars, scopeVars, lrVars, phVars, headVars >>
notSoupVars == << urlVars, nsVars, buildVars, texVars, scopeVars, lrVars, phVars, headVars >>
notNsVars == << urlVars, soupVars, buildVars, texVars, scopeVars, lrVars, phVars, headVars >>
notBuildVars == << urlVars, soupVars, nsVars, texVars, scopeVars, lrVars, phVars, headVars >>
notTexVars == << urlVars, soupVars, nsVars, buildVars, scopeVars, lrVars, phVars, headVars >>
notScopeVars == << urlVars, soupVars, nsVars, buildVars, texVars, lrVars, phVars, headVars >>
notLrVars == << urlVars, soupVars, nsVars, buildVars, texVars, scopeVars, phVars, headVars >>
notPhVars == << urlVars, soupVars, nsVars, buildVars, texVars, scopeVars, lrVars, headVars >>
notHeadVars == << urlVars, soupVars, nsVars, buildVars, texVars, scopeVars, lrVars, phVars >>
\* urlsplit's scheme test: url[:i] is a scheme when i > 0, url[0] is a
\* letter and every character before the first ":" is a scheme character.
HasScheme(url) ==
    LET at(i) == /\ i > 1
                 /\ url[1] \in Letters
                 /\ \A k \in 1..(i - 1) : url[k] \in scheme_chars
    IN  at(Find(url, ":", 1))

\* _splitnetloc(url, 2): the authority ends at the first of "/", "?", "#".
NetlocEnd(url) ==
    LET first(ends) == IF ends = {} THEN Len(url) + 1 ELSE First(ends)
    IN  first({i \in 3..Len(url) : url[i] \in {"/", "?", "#"}})

\* urllib.parse.urlsplit(url, scheme): scheme, netloc, path, query, fragment
urlsplit(url, default_scheme) ==
    LET query_at(scheme, netloc, rest, fragment, q) ==
            [scheme |-> scheme, netloc |-> netloc,
             path |-> IF q > 0 THEN SubSeq(rest, 1, q - 1) ELSE rest,
             query |-> IF q > 0 THEN From(rest, q + 1) ELSE << >>,
             fragment |-> fragment]
        after_fragment(scheme, netloc, rest, fragment) ==
            query_at(scheme, netloc, rest, fragment, Find(rest, "?", 1))
        fragment_at(scheme, netloc, rest, h) ==
            after_fragment(scheme, netloc,
                           IF h > 0 THEN SubSeq(rest, 1, h - 1) ELSE rest,
                           IF h > 0 THEN From(rest, h + 1) ELSE << >>)
        after_netloc(scheme, netloc, rest) ==
            fragment_at(scheme, netloc, rest, Find(rest, "#", 1))
        after_scheme(scheme, rest) ==
            IF StartsWith(rest, << "/", "/" >>)
            THEN after_netloc(scheme, SubSeq(rest, 3, NetlocEnd(rest) - 1),
                              From(rest, NetlocEnd(rest)))
            ELSE after_netloc(scheme, << >>, rest)
    IN  IF HasScheme(url)
        THEN after_scheme(SubSeq(url, 1, Find(url, ":", 1) - 1),
                          From(url, Find(url, ":", 1) + 1))
        ELSE after_scheme(default_scheme, url)

\* urllib.parse._splitparams(url): the parameters of the last path segment
splitparams(url) ==
    LET at(i) == IF i = 0 THEN << url, << >> >>
                 ELSE << SubSeq(url, 1, i - 1), From(url, i + 1) >>
    IN  at(IF Contains(url, "/") THEN Find(url, ";", RFind(url, "/"))
           ELSE Find(url, ";", 1))

\* urllib.parse.urlparse(url, scheme): the six components
urlparse(url, default_scheme) ==
    LET components(s, sp) ==
            [scheme |-> s.scheme, netloc |-> s.netloc, path |-> sp[1],
             params |-> sp[2], query |-> s.query, fragment |-> s.fragment]
        parsed(s) ==
            components(s, IF s.scheme \in uses_params /\ Contains(s.path, ";")
                          THEN splitparams(s.path) ELSE << s.path, << >> >>)
    IN  parsed(urlsplit(url, default_scheme))

\* urllib.parse.urlunsplit
urlunsplit(scheme, netloc, url, query, fragment) ==
    LET with_fragment(u) ==
            IF fragment # << >> THEN u \o << "#" >> \o fragment ELSE u
        with_query(u) ==
            with_fragment(IF query # << >> THEN u \o << "?" >> \o query ELSE u)
        with_scheme(u) ==
            with_query(IF scheme # << >> THEN scheme \o << ":" >> \o u ELSE u)
    IN  with_scheme(IF \/ netloc # << >>
                       \/ (scheme # << >> /\ scheme \in uses_netloc
                             /\ ~StartsWith(url, << "/", "/" >>))
                    THEN << "/", "/" >> \o netloc
                           \o (IF url # << >> /\ url[1] # "/" THEN << "/" >> ELSE << >>)
                           \o url
                    ELSE url)

\* urllib.parse.urlunparse
urlunparse(scheme, netloc, path, params, query, fragment) ==
    urlunsplit(scheme, netloc,
               IF params # << >> THEN path \o << ";" >> \o params ELSE path,
               query, fragment)

\* urljoin's loop over the merged segments: ".." pops, "." is skipped
RECURSIVE ResolveSegments(_, _)
ResolveSegments(segments, resolved_path) ==
    IF segments = << >> THEN resolved_path
    ELSE LET seg == segments[1]
         IN  IF seg = << ".", "." >>
             THEN ResolveSegments(Tail(segments),
                      IF resolved_path = << >> THEN << >>
                      ELSE SubSeq(resolved_path, 1, Len(resolved_path) - 1))
             ELSE IF seg = << "." >>
             THEN ResolveSegments(Tail(segments), resolved_path)
             ELSE ResolveSegments(Tail(segments), resolved_path \o << seg >>)

\* urllib.parse.urljoin(base, url)
urljoin(base, url) ==
    LET base_parts(bsplit) ==
            IF Last(bsplit) # << >>
            THEN SubSeq(bsplit, 1, Len(bsplit) - 1) ELSE bsplit
        filtered(merged) ==
            IF Len(merged) <= 2 THEN merged
            ELSE << merged[1] >>
                   \o FilterNonEmpty(SubSeq(merged, 2, Len(merged) - 1))
                   \o << Last(merged) >>
        with_slash(segments, resolved) ==
            IF Last(segments) \in {<< "." >>, << ".", "." >>}
            THEN resolved \o << << >> >> ELSE resolved
        resolved_path(segments) ==
            with_slash(segments, ResolveSegments(segments, << >>))
        joined_path(b, u) ==
            Join(resolved_path(
                     IF u.path # << >> /\ u.path[1] = "/" THEN Split(u.path, "/")
                     ELSE filtered(base_parts(Split(b.path, "/"))
                                     \o Split(u.path, "/"))),
                 "/")
        unparse(b, u, netloc, joined) ==
            IF u.scheme # b.scheme \/ u.scheme \notin uses_relative THEN url
            ELSE IF u.scheme \in uses_netloc /\ u.netloc # << >>
            THEN urlunparse(u.scheme, u.netloc, u.path, u.params, u.query, u.fragment)
            ELSE IF u.path = << >> /\ u.params = << >>
            THEN urlunparse(u.scheme, netloc, b.path, b.params,
                            IF u.query = << >> THEN b.query ELSE u.query, u.fragment)
            ELSE urlunparse(u.scheme, netloc,
                            IF joined = << >> THEN << "/" >> ELSE joined,
                            u.params, u.query, u.fragment)
        join(b, u) ==
            unparse(b, u, IF u.scheme \in uses_netloc THEN b.netloc ELSE u.netloc,
                    joined_path(b, u))
        with_base(b) == join(b, urlparse(url, b.scheme))
    IN  IF base = << >> THEN url
        ELSE IF url = << >> THEN base
        ELSE with_base(urlparse(base, << >>))

(***************************************************************************)
(* sw_urllib.py                                                            *)
(***************************************************************************)

\* The loop of remove_dot_segments, from the last segment down: "" and "."
\* are deleted, ".." is deleted and counted, and a plain segment is deleted
\* while the count is positive.
\* A variant that keeps the empty segments of a path
RECURSIVE DotLoop_KeepEmpty(_, _, _)
DotLoop_KeepEmpty(path_segments, i, to_remove) ==
    IF path_segments = << >> \/ i < 1 THEN path_segments
    ELSE LET seg == path_segments[i]
         IN  IF seg = << "." >>
             THEN DotLoop_KeepEmpty(RemoveAt(path_segments, i), i - 1, to_remove)
             ELSE IF seg = << ".", "." >>
             THEN DotLoop_KeepEmpty(RemoveAt(path_segments, i), i - 1, to_remove + 1)
             ELSE IF to_remove > 0
             THEN DotLoop_KeepEmpty(RemoveAt(path_segments, i), i - 1, to_remove - 1)
             ELSE DotLoop_KeepEmpty(path_segments, i - 1, to_remove)

RECURSIVE DotLoop(_, _, _)
DotLoop(path_segments, i, to_remove) ==
    IF path_segments = << >> \/ i < 1 THEN path_segments
    ELSE LET seg == path_segments[i]
         IN  IF seg = << >> \/ seg = << "." >>
             THEN DotLoop(RemoveAt(path_segments, i), i - 1, to_remove)
             ELSE IF seg = << ".", "." >>
             THEN DotLoop(RemoveAt(path_segments, i), i - 1, to_remove + 1)
             ELSE IF to_remove > 0
             THEN DotLoop(RemoveAt(path_segments, i), i - 1, to_remove - 1)
             ELSE DotLoop(path_segments, i - 1, to_remove)

\* A variant that forgets the path that simply ends with a slash
TrailingSlash_DotsOnly(path) ==
    \/ EndsWith(path, << "/", "." >>)
    \/ EndsWith(path, << "/", ".", "." >>)

\* The trailing slash remove_dot_segments restores
TrailingSlash(path) ==
    \/ EndsWith(path, << "/" >>)
    \/ EndsWith(path, << "/", "." >>)
    \/ EndsWith(path, << "/", ".", "." >>)

remove_dot_segments(url) ==
    LET with_slashes(u, kept) ==
            (IF StartsWith(u.path, << "/" >>) THEN << << >> >> ELSE << >>)
                \o kept
                \o (IF TrailingSlash(u.path) THEN << << >> >> ELSE << >>)
        segments_of(u, split) == with_slashes(u, DotLoop(split, Len(split), 0))
        unparse(u) ==
            urlunparse(u.scheme, u.netloc,
                       Join(segments_of(u, Split(Strip(u.path, "/"), "/")), "/"),
                       u.params, u.query, u.fragment)
    IN  unparse(urlparse(url, << >>))

rfc3986_urljoin(base, url) == remove_dot_segments(urljoin(base, url))

\* The depth of the deepest common parent relative_url finds: the last
\* i in 1..n-1 (0-based) before the first differing segment.
RECURSIVE DcpDepth(_, _, _, _)
DcpDepth(tp, bp, i, n) ==
    IF i >= n THEN i - 1
    ELSE IF tp[i + 1] # bp[i + 1] THEN i - 1
    ELSE DcpDepth(tp, bp, i + 1, n)

\* "../" * go_up
RECURSIVE Repeat(_, _)
Repeat(s, n) == IF n <= 0 THEN << >> ELSE s \o Repeat(s, n - 1)

Min(a, b) == IF a < b THEN a ELSE b

\* A variant that returns an empty relative path as it is
RelPath_Bare(t_path, b_path) ==
    LET relpath(tp, bp, dcp_depth) ==
            Repeat(<< ".", ".", "/" >>, (Len(bp) - 1) - dcp_depth - 1)
                \o Join(SubSeq(tp, dcp_depth + 2, Len(tp)), "/")
        from_parts(tp, bp) ==
            relpath(tp, bp, DcpDepth(tp, bp, 1, Min(Len(tp), Len(bp))))
    IN  from_parts(Split(t_path, "/"), Split(b_path, "/"))

\* The relative path of relative_url when the two paths differ
RelPath(t_path, b_path) ==
    LET relpath(tp, bp, dcp_depth) ==
            Repeat(<< ".", ".", "/" >>, (Len(bp) - 1) - dcp_depth - 1)
                \o Join(SubSeq(tp, dcp_depth + 2, Len(tp)), "/")
        or_dot(path) == IF path = << >> THEN << ".", "/" >> ELSE path
        from_parts(tp, bp) ==
            or_dot(relpath(tp, bp, DcpDepth(tp, bp, 1, Min(Len(tp), Len(bp)))))
    IN  from_parts(Split(t_path, "/"), Split(b_path, "/"))

relative_url(url_in, base_url, allow_empty, allow_net) ==
    LET same_path(p) ==
            IF allow_empty THEN << >>
            ELSE IF Last(p) = << >> THEN << ".", "/" >>
            ELSE Last(p)
        relative(t, b) ==
            IF t.scheme # b.scheme
            THEN urlunparse(t.scheme, t.netloc, t.path, t.params, t.query, t.fragment)
            ELSE IF t.netloc # b.netloc
            THEN urlunparse(IF allow_net THEN << >> ELSE t.scheme,
                            t.netloc, t.path, t.params, t.query, t.fragment)
            ELSE IF t.path = b.path
            THEN IF t.query # b.query
                 THEN urlunparse(<< >>, << >>, same_path(Split(t.path, "/")),
                                 t.params, t.query, t.fragment)
                 ELSE IF t.fragment # b.fragment
                 THEN urlunparse(<< >>, << >>, same_path(Split(t.path, "/")),
                                 t.params, << >>, t.fragment)
                 ELSE urlunparse(<< >>, << >>, same_path(Split(t.path, "/")),
                                 t.params, << >>, << >>)
            ELSE urlunparse(<< >>, << >>, RelPath(t.path, b.path),
                            t.params, t.query, t.fragment)
    IN  relative(urlparse(rfc3986_urljoin(base_url, url_in), << >>),
                 urlparse(base_url, << >>))

\* What rebase_url raises when must_rebase is set and the URL is not in src
ValueError == << "ValueError" >>

\* A variant that returns the resolved URL whatever must_rebase says
rebase_url_Lenient(url, src, dest, must_rebase) ==
    LET rebased(t_url, r_url, r) ==
            IF \/ r.scheme # << >>
               \/ r.netloc # << >>
               \/ StartsWith(r.path, << ".", ".", "/" >>)
            THEN t_url
            ELSE rfc3986_urljoin(dest, r_url)
        relativized(t_url, r_url) == rebased(t_url, r_url, urlparse(r_url, << >>))
        joined(t_url) == relativized(t_url, relative_url(t_url, src, FALSE, FALSE))
    IN  joined(rfc3986_urljoin(src, url))

rebase_url(url, src, dest, must_rebase) ==
    LET rebased(t_url, r_url, r) ==
            IF \/ r.scheme # << >>
               \/ r.netloc # << >>
               \/ StartsWith(r.path, << ".", ".", "/" >>)
            THEN IF must_rebase THEN ValueError ELSE t_url
            ELSE rfc3986_urljoin(dest, r_url)
        relativized(t_url, r_url) == rebased(t_url, r_url, urlparse(r_url, << >>))
        joined(t_url) == relativized(t_url, relative_url(t_url, src, FALSE, FALSE))
    IN  joined(rfc3986_urljoin(src, url))
RFC3986_BASE == <<"h", "t", "t", "p", ":", "/", "/", "a", "/", "b", "/", "c", "/", "d", ";", "p", "?", "q">>

RFC3986_normal_tests ==
    << << <<"g", ":", "h">>,
          <<"g", ":", "h">> >>,
       << <<"g">>,
          <<"h", "t", "t", "p", ":", "/", "/", "a", "/", "b", "/", "c", "/", "g">> >>,
       << <<".", "/", "g">>,
          <<"h", "t", "t", "p", ":", "/", "/", "a", "/", "b", "/", "c", "/", "g">> >>,
       << <<"g", "/">>,
          <<"h", "t", "t", "p", ":", "/", "/", "a", "/", "b", "/", "c", "/", "g", "/">> >>,
       << <<"/", "g">>,
          <<"h", "t", "t", "p", ":", "/", "/", "a", "/", "g">> >>,
       << <<"/", "/", "g">>,
          <<"h", "t", "t", "p", ":", "/", "/", "g">> >>,
       << <<"?", "y">>,
          <<"h", "t", "t", "p", ":", "/", "/", "a", "/", "b", "/", "c", "/", "d", ";", "p", "?", "y">> >>,
       << <<"g", "?", "y">>,
          <<"h", "t", "t", "p", ":", "/", "/", "a", "/", "b", "/", "c", "/", "g", "?", "y">> >>,
       << <<"#", "s">>,
          <<"h", "t", "t", "p", ":", "/", "/", "a", "/", "b", "/", "c", "/", "d", ";", "p", "?", "q", "#", "s">> >>,
       << <<"g", "#", "s">>,
          <<"h", "t", "t", "p", ":", "/", "/", "a", "/", "b", "/", "c", "/", "g", "#", "s">> >>,
       << <<"g", "?", "y", "#", "s">>,
          <<"h", "t", "t", "p", ":", "/", "/", "a", "/", "b", "/", "c", "/", "g", "?", "y", "#", "s">> >>,
       << <<";", "x">>,
          <<"h", "t", "t", "p", ":", "/", "/", "a", "/", "b", "/", "c", "/", ";", "x">> >>,
       << <<"g", ";", "x">>,
          <<"h", "t", "t", "p", ":", "/", "/", "a", "/", "b", "/", "c", "/", "g", ";", "x">> >>,
       << <<"g", ";", "x", "?", "y", "#", "s">>,
          <<"h", "t", "t", "p", ":", "/", "/", "a", "/", "b", "/", "c", "/", "g", ";", "x", "?", "y", "#", "s">> >>,
       << <<>>,
          <<"h", "t", "t", "p", ":", "/", "/", "a", "/", "b", "/", "c", "/", "d", ";", "p", "?", "q">> >>,
       << <<".">>,
          <<"h", "t", "t", "p", ":", "/", "/", "a", "/", "b", "/", "c", "/">> >>,
       << <<".", "/">>,
          <<"h", "t", "t", "p", ":", "/", "/", "a", "/", "b", "/", "c", "/">> >>,
       << <<".", ".">>,
          <<"h", "t", "t", "p", ":", "/", "/", "a", "/", "b", "/">> >>,
       << <<".", ".", "/">>,
          <<"h", "t", "t", "p", ":", "/", "/", "a", "/", "b", "/">> >>,
       << <<".", ".", "/", "g">>,
          <<"h", "t", "t", "p", ":", "/", "/", "a", "/", "b", "/", "g">> >>,
       << <<".", ".", "/", ".", ".">>,
          <<"h", "t", "t", "p", ":", "/", "/", "a", "/">> >>,
       << <<".", ".", "/", ".", ".", "/">>,
          <<"h", "t", "t", "p", ":", "/", "/", "a", "/">> >>,
       << <<".", ".", "/", ".", ".", "/", "g">>,
          <<"h", "t", "t", "p", ":", "/", "/", "a", "/", "g">> >> >>

RFC3986_abnormal_tests ==
    << << <<".", ".", "/", ".", ".", "/", ".", ".", "/", "g">>,
          <<"h", "t", "t", "p", ":", "/", "/", "a", "/", "g">> >>,
       << <<".", ".", "/", ".", ".", "/", ".", ".", "/", ".", ".", "/", "g">>,
          <<"h", "t", "t", "p", ":", "/", "/", "a", "/", "g">> >>,
       << <<"/", ".", "/", "g">>,
          <<"h", "t", "t", "p", ":", "/", "/", "a", "/", "g">> >>,
       << <<"/", ".", ".", "/", "g">>,
          <<"h", "t", "t", "p", ":", "/", "/", "a", "/", "g">> >>,
       << <<"g", ".">>,
          <<"h", "t", "t", "p", ":", "/", "/", "a", "/", "b", "/", "c", "/", "g", ".">> >>,
       << <<".", "g">>,
          <<"h", "t", "t", "p", ":", "/", "/", "a", "/", "b", "/", "c", "/", ".", "g">> >>,
       << <<"g", ".", ".">>,
          <<"h", "t", "t", "p", ":", "/", "/", "a", "/", "b", "/", "c", "/", "g", ".", ".">> >>,
       << <<".", ".", "g">>,
          <<"h", "t", "t", "p", ":", "/", "/", "a", "/", "b", "/", "c", "/", ".", ".", "g">> >>,
       << <<".", "/", ".", ".", "/", "g">>,
          <<"h", "t", "t", "p", ":", "/", "/", "a", "/", "b", "/", "g">> >>,
       << <<".", "/", "g", "/", ".">>,
          <<"h", "t", "t", "p", ":", "/", "/", "a", "/", "b", "/", "c", "/", "g", "/">> >>,
       << <<"g", "/", ".", "/", "h">>,
          <<"h", "t", "t", "p", ":", "/", "/", "a", "/", "b", "/", "c", "/", "g", "/", "h">> >>,
       << <<"g", "/", ".", ".", "/", "h">>,
          <<"h", "t", "t", "p", ":", "/", "/", "a", "/", "b", "/", "c", "/", "h">> >>,
       << <<"g", ";", "x", "=", "1", "/", ".", "/", "y">>,
          <<"h", "t", "t", "p", ":", "/", "/", "a", "/", "b", "/", "c", "/", "g", ";", "x", "=", "1", "/", "y">> >>,
       << <<"g", ";", "x", "=", "1", "/", ".", ".", "/", "y">>,
          <<"h", "t", "t", "p", ":", "/", "/", "a", "/", "b", "/", "c", "/", "y">> >>,
       << <<"g", "?", "y", "/", ".", "/", "x">>,
          <<"h", "t", "t", "p", ":", "/", "/", "a", "/", "b", "/", "c", "/", "g", "?", "y", "/", ".", "/", "x">> >>,
       << <<"g", "?", "y", "/", ".", ".", "/", "x">>,
          <<"h", "t", "t", "p", ":", "/", "/", "a", "/", "b", "/", "c", "/", "g", "?", "y", "/", ".", ".", "/", "x">> >>,
       << <<"g", "#", "s", "/", ".", "/", "x">>,
          <<"h", "t", "t", "p", ":", "/", "/", "a", "/", "b", "/", "c", "/", "g", "#", "s", "/", ".", "/", "x">> >>,
       << <<"g", "#", "s", "/", ".", ".", "/", "x">>,
          <<"h", "t", "t", "p", ":", "/", "/", "a", "/", "b", "/", "c", "/", "g", "#", "s", "/", ".", ".", "/", "x">> >>,
       << <<"h", "t", "t", "p", ":", "g">>,
          <<"h", "t", "t", "p", ":", "/", "/", "a", "/", "b", "/", "c", "/", "g">> >> >>

(***************************************************************************)
(* LinkRewriter.py: the callback rewrite_links builds                      *)
(***************************************************************************)

\* sw_util.generate_fake_url: "http://<random label>.example.com/"
generate_fake_url(random_label) ==
    <<"h", "t", "t", "p", ":", "/", "/">> \o random_label \o <<".", "e", "x", "a", "m", "p", "l", "e", ".", "c", "o", "m", "/">>

\* rewrite_links: the URL of the page being written, under the real base
real_current_url(target_url, base_url, fake_base_url) ==
    rebase_url(rfc3986_urljoin(fake_base_url, target_url),
               fake_base_url, base_url, FALSE)

\* rewrite_links.cb(url, criterion): the replacement of one link
cb(url, target_url, base_url, fake_base_url, always_absolute) ==
    LET replacement(link_url) ==
            IF always_absolute THEN link_url
            ELSE relative_url(link_url,
                              real_current_url(target_url, base_url, fake_base_url),
                              FALSE, FALSE)
        rebased(joined) == replacement(rebase_url(joined, fake_base_url, base_url, FALSE))
        from_page(fake_current_url) == rebased(rfc3986_urljoin(fake_current_url, url))
    IN  from_page(rfc3986_urljoin(fake_base_url, target_url))

(***************************************************************************)
(* The inputs of the URL algebra: site paths of bounded depth over two     *)
(* segment names, as files and as directories, with and without a query    *)
(* and a fragment, and the examples of the tests and of the documentation. *)
(***************************************************************************)

MaxDepth == 2

Segments == {<< "a" >>, << "b" >>}

RECURSIVE DirsOfDepth(_)
DirsOfDepth(d) ==
    IF d = 0 THEN {<< "/" >>}
    ELSE {p \o s \o << "/" >> : p \in DirsOfDepth(d - 1), s \in Segments}

Dirs == UNION {DirsOfDepth(d) : d \in 0..MaxDepth}
Files == {p \o s : p \in UNION {DirsOfDepth(d) : d \in 0..(MaxDepth - 1)},
                   s \in Segments}
SitePaths == Dirs \cup Files

Queries == {<< >>, << "?", "q" >>, << "?", "r" >>}
Fragments == {<< >>, << "#", "f" >>}

HostH == <<"h", "t", "t", "p", ":", "/", "/", "h">>
AbsUrls == {HostH \o p \o q \o f : p \in SitePaths, q \in Queries, f \in Fragments}

\* The end-to-end example: link /x on page /a/b.html of http://site.example/pub/
ExampleLink == <<"/", "x">>
ExampleTarget == <<"/", "a", "/", "b", ".", "h", "t", "m", "l">>
ExampleBase == <<"h", "t", "t", "p", ":", "/", "/", "s", "i", "t", "e", ".", "e", "x", "a", "m", "p", "l", "e", "/", "p", "u", "b", "/">>
RootBase == <<"h", "t", "t", "p", ":", "/", "/", "h", "/">>

Links == SitePaths \cup {ExampleLink}
TargetUrls == SitePaths \cup {ExampleTarget}
BaseUrls == {ExampleBase, RootBase}
RandomLabels == {<< "k" >>, << "r", "n", "d" >>}

AllTests == RFC3986_normal_tests \o RFC3986_abnormal_tests

\* URLs of two schemes and two authorities, for the keyword arguments of
\* relative_url
Authorities ==
    {<<"h", "t", "t", "p", ":", "/", "/", "h">>,
     <<"h", "t", "t", "p", ":", "/", "/", "g">>,
     <<"f", "t", "p", ":", "/", "/", "h">>}
KwPaths == {<< >>, << "/" >>, << "/", "a" >>, << "/", "a", "/" >>,
            << "/", "a", "/", "b" >>}
KwBases == {a \o p \o q : a \in Authorities, p \in KwPaths,
                           q \in {<< >>, << "?", "q" >>}}
KwUrls == {b \o f : b \in KwBases, f \in Fragments}
RelativeRefs ==
    {<< >>, << ".", "/" >>, << ".", ".", "/" >>, << "a" >>,
     << "/", "/", "g", "/", "a" >>}

\* The arguments of rebase_url: a URL under src, beside it, on another
\* host, or relative; a source directory or file; a destination
OtherHost == <<"h", "t", "t", "p", ":", "/", "/", "g">>
RebaseUrls ==
    SitePaths \cup {HostH \o p : p \in SitePaths}
              \cup {OtherHost \o p : p \in SitePaths}
              \cup RelativeRefs
SrcUrls == {HostH \o << "/" >>, HostH \o << "/", "a", "/" >>,
            HostH \o << "/", "a", "/", "b" >>}
DestUrls == {HostH \o << "/", "b", "/" >>,
             OtherHost \o << "/", "n", "e", "w", "/" >>}

\* The arguments of remove_dot_segments: up to MaxSegments segments, each
\* a name, ".", ".." or empty, relative or absolute, with and without a
\* trailing slash, a query and a fragment
MaxSegments == 3

DotSegments == {<< "a" >>, << "." >>, << ".", "." >>, << >>}

RECURSIVE DotPaths(_)
DotPaths(n) ==
    IF n = 0 THEN {<< >>}
    ELSE DotPaths(n - 1)
         \cup {IF p = << >> THEN s ELSE p \o << "/" >> \o s :
                   p \in DotPaths(n - 1), s \in DotSegments}

DotUrls ==
    {pre \o p \o trail \o rest :
        pre \in {<< >>, << "/" >>, HostH, HostH \o << "/" >>},
        p \in DotPaths(MaxSegments),
        trail \in {<< >>, << "/" >>},
        rest \in {<< >>, << "?", "q", "#", "f" >>}}

UrlInit ==
    /\ u_op = "none"
    /\ u_url = << >>
    /\ u_base = << >>
    /\ u_target = << >>
    /\ u_fake = << >>
    /\ u_flags = {}
    /\ u_result = << >>

\* rfc3986_urljoin(base, ref) on the examples of RFC 3986 section 5.4
JoinExample ==
    /\ u_op = "none"
    /\ \E i \in 1..Len(AllTests) :
           /\ u_url' = AllTests[i][1]
           /\ u_result' = rfc3986_urljoin(RFC3986_BASE, AllTests[i][1])
    /\ u_op' = "rfc3986_urljoin"
    /\ u_base' = RFC3986_BASE
    /\ UNCHANGED << u_target, u_fake, u_flags >>
    /\ UNCHANGED notUrlVars

\* relative_url(target, base) with the default allow_empty and allow_net
Relativize ==
    /\ u_op = "none"
    /\ \E target \in AbsUrls, base \in AbsUrls :
           /\ u_url' = target
           /\ u_base' = base
           /\ u_result' = relative_url(target, base, FALSE, FALSE)
    /\ u_op' = "relative_url"
    /\ UNCHANGED << u_target, u_fake, u_flags >>
    /\ UNCHANGED notUrlVars

\* rewrite_links(node, HTML_CRITERIA, target_url, base_url) meeting one link
RewriteLink ==
    /\ u_op = "none"
    /\ \E link \in Links, target_url \in TargetUrls, base_url \in BaseUrls,
          label \in RandomLabels :
           /\ u_url' = link
           /\ u_base' = base_url
           /\ u_target' = target_url
           /\ u_fake' = generate_fake_url(label)
           /\ u_result' = cb(link, target_url, base_url,
                             generate_fake_url(label), FALSE)
    /\ u_op' = "rewrite_links"
    /\ UNCHANGED u_flags
    /\ UNCHANGED notUrlVars

\* relative_url(url, base_url, allow_empty, allow_net) with any keyword
\* arguments, on URLs of several schemes and authorities
RelativizeWith ==
    /\ u_op = "none"
    /\ \E url \in KwUrls \cup RelativeRefs, base_url \in KwBases,
          allow_empty \in BOOLEAN, allow_net \in BOOLEAN :
           /\ u_url' = url
           /\ u_base' = base_url
           /\ u_flags' = {kw \in {"allow_empty", "allow_net"} :
                             \/ kw = "allow_empty" /\ allow_empty
                             \/ kw = "allow_net" /\ allow_net}
           /\ u_result' = relative_url(url, base_url, allow_empty, allow_net)
    /\ u_op' = "relative_url(kw)"
    /\ UNCHANGED << u_target, u_fake >>
    /\ UNCHANGED notUrlVars

\* rebase_url(url, src, dest, must_rebase)
Rebase ==
    /\ u_op = "none"
    /\ \E url \in RebaseUrls, src \in SrcUrls, dest \in DestUrls,
          must_rebase \in BOOLEAN :
           /\ u_url' = url
           /\ u_base' = src
           /\ u_target' = dest
           /\ u_flags' = IF must_rebase THEN {"must_rebase"} ELSE {}
           /\ u_result' = rebase_url(url, src, dest, must_rebase)
    /\ u_op' = "rebase_url"
    /\ UNCHANGED u_fake
    /\ UNCHANGED notUrlVars

\* remove_dot_segments(url)
RemoveDots ==
    /\ u_op = "none"
    /\ \E url \in DotUrls :
           /\ u_url' = url
           /\ u_result' = remove_dot_segments(url)
    /\ u_op' = "remove_dot_segments"
    /\ UNCHANGED << u_base, u_target, u_fake, u_flags >>
    /\ UNCHANGED notUrlVars

\* One call from the idle state
UrlNext ==
    \/ JoinExample
    \/ Relativize
    \/ RewriteLink
    \/ RelativizeWith
    \/ Rebase
    \/ RemoveDots

(***************************************************************************)
(* TagSoupToXml.py: the loose-syntax HTML parser.                          *)
(*                                                                         *)
(* A string of markup is a sequence of atoms (a tag name, a delimiter such *)
(* as "<" or "</", a character of text); an output list is a sequence of   *)
(* such strings and "".join is their concatenation.  None is a value of    *)
(* its own for a string and for a list.                                    *)
(***************************************************************************)

NoneStr == << "None" >>
NoneList == << << "None" >> >>
TypeError == << "TypeError" >>
NotCalled == << "NotCalled" >>

forbidden_endtags ==
    {"area", "base", "basefont", "br", "col", "frame", "hr", "img",
     "input", "isindex", "link", "meta", "param"}

forbidden_parents == {"p", "option", "col", "colgroup"}

\* set(('dl')) is the set of the characters of 'dl'
mandatory_parents ==
    [li |-> {"ul", "ol"},
     td |-> {"tr", "table"},
     th |-> {"tr", "table"},
     tr |-> {"table", "tbody", "thead", "tfoot"},
     dd |-> {"d", "l"},
     dt |-> {"d", "l"}]

prologue == << >>

\* str.lower on the tag names the model feeds
lower(tagname) ==
    CASE tagname = "P" -> "p"
      [] tagname = "LI" -> "li"
      [] OTHER -> tagname

\* "".join(pieces)
RECURSIVE Concat(_)
Concat(pieces) ==
    IF pieces = << >> THEN << >> ELSE pieces[1] \o Concat(Tail(pieces))

\* html.escape(s, quote)
RECURSIVE escape(_, _)
escape(s, quote) ==
    IF s = << >> THEN << >>
    ELSE (CASE s[1] = "&" -> << "&amp;" >>
            [] s[1] = "<" -> << "&lt;" >>
            [] s[1] = ">" -> << "&gt;" >>
            [] s[1] = "\"" /\ quote -> << "&quot;" >>
            [] s[1] = "'" /\ quote -> << "&#x27;" >>
            [] OTHER -> << s[1] >>) \o escape(Tail(s), quote)

\* attr_list.sort() on (name, value) pairs with one-letter names
AttrRank(k) == CHOOSE n \in 1..3 : << "a", "b", "c" >>[n] = k
sort(attr_list) ==
    SortSeq(attr_list, LAMBDA x, y : AttrRank(x[1]) < AttrRank(y[1]))

\* An output that keeps going to the head content after the body has begun
add_output_HeadOnly(self, text) ==
    IF self.output_buffer # NoneList
    THEN [self EXCEPT !.output_buffer = Append(@, text)]
    ELSE [self EXCEPT !.head_content =
                         Append(IF @ = NoneList THEN << >> ELSE @, text)]

\* TagSoupToXml.add_output
add_output(self, text) ==
    IF self.output_buffer # NoneList
    THEN [self EXCEPT !.output_buffer = Append(@, text)]
    ELSE IF self.body_content = NoneList
    THEN [self EXCEPT !.head_content =
                         Append(IF @ = NoneList THEN << >> ELSE @, text)]
    ELSE [self EXCEPT !.body_content = Append(@, text)]

\* n times: tn = self.tagstack.pop(); self.add_output("</%s>" % (tn,))
RECURSIVE pop_n(_, _)
pop_n(self, n) ==
    IF n = 0 \/ self.tagstack = << >> THEN self
    ELSE pop_n(add_output([self EXCEPT !.tagstack = SubSeq(@, 1, Len(@) - 1)],
                          << "</", Last(self.tagstack), ">" >>),
               n - 1)

\* TagSoupToXml.handle_data
handle_data(self, data) == add_output(self, escape(data, TRUE))

\* An end tag that closes down to the oldest open instance of the element
handle_endtag_Oldest(self, tagname_in) ==
    LET tagname == lower(tagname_in)
    IN  IF tagname \in {"html", "head", "body"}
        THEN pop_n(self, Len(self.tagstack))
        ELSE IF ~Contains(self.tagstack, tagname) THEN self
        ELSE pop_n(self, Len(self.tagstack) - Find(self.tagstack, tagname, 1) + 1)

\* TagSoupToXml.handle_endtag
handle_endtag(self, tagname_in) ==
    LET tagname == lower(tagname_in)
    IN  IF tagname \in {"html", "head", "body"}
        THEN pop_n(self, Len(self.tagstack))
        ELSE IF ~Contains(self.tagstack, tagname) THEN self
        ELSE pop_n(self, Len(self.tagstack) - RFind(self.tagstack, tagname) + 1)

\* for (k, v) in attr_list: self.add_output(' %s="%s"' % ...)
RECURSIVE add_attributes(_, _)
add_attributes(self, attr_list) ==
    IF attr_list = << >> THEN self
    ELSE add_attributes(
             add_output(self, << " ", attr_list[1][1], "=\"" >>
                              \o escape(attr_list[1][2], TRUE) \o << "\"" >>),
             Tail(attr_list))

\* TagSoupToXml.handle_starttag
handle_starttag(self, tagname_in, attributes) ==
    LET tagname == lower(tagname_in)
        attr_list == sort(attributes)
        duplicate ==
            \/ tagname = "html" /\ self.html_tag # NoneStr
            \/ tagname = "head" /\ self.head_tag # NoneStr
            \/ tagname = "body" /\ self.body_tag # NoneStr
        s1 == IF /\ tagname \in forbidden_parents
                 /\ self.tagstack # << >>
                 /\ Last(self.tagstack) = tagname
              THEN pop_n(self, 1) ELSE self
        hits == IF tagname \in DOMAIN mandatory_parents
                THEN {i \in 1..Len(s1.tagstack) :
                          s1.tagstack[i] \in mandatory_parents[tagname]}
                ELSE {}
        s2 == IF hits = {} THEN s1
              ELSE pop_n(s1, Len(s1.tagstack)
                               - (CHOOSE i \in hits : \A j \in hits : j <= i))
        s3 == IF tagname \in {"html", "head"}
              THEN [s2 EXCEPT !.output_buffer = << >>]
              ELSE IF tagname = "body"
              THEN [handle_endtag(s2, "head") EXCEPT !.output_buffer = << >>]
              ELSE s2
        s4 == add_attributes(add_output(s3, << "<", tagname >>), attr_list)
        s5 == IF tagname \in forbidden_endtags
              THEN add_output(s4, << " />" >>)
              ELSE IF tagname \notin {"html", "head", "body"}
              THEN [add_output(s4, << ">" >>) EXCEPT !.tagstack = Append(@, tagname)]
              ELSE add_output(s4, << ">" >>)
    IN  IF duplicate THEN self
        ELSE IF tagname = "html"
        THEN [s5 EXCEPT !.html_tag = Concat(s5.output_buffer),
                        !.output_buffer = NoneList]
        ELSE IF tagname = "head"
        THEN [s5 EXCEPT !.head_tag = Concat(s5.output_buffer),
                        !.output_buffer = NoneList]
        ELSE IF tagname = "body"
        THEN [s5 EXCEPT !.body_tag = Concat(s5.output_buffer),
                        !.output_buffer = NoneList,
                        !.body_content = IF @ = NoneList THEN << >> ELSE @]
        ELSE s5

\* re.compile(r'-(?=-)').sub('- ', data)
RECURSIVE split_hyphens(_)
split_hyphens(data) ==
    IF data = << >> THEN << >>
    ELSE (IF data[1] = "-" /\ Len(data) >= 2 /\ data[2] = "-"
          THEN << "-", " " >> ELSE << data[1] >>) \o split_hyphens(Tail(data))

\* TagSoupToXml.handle_comment
handle_comment(self, data_in) ==
    LET d1 == split_hyphens(data_in)
        data == IF EndsWith(d1, << "-" >>) THEN d1 \o << " " >> ELSE d1
    IN  IF self.omit_comments THEN self
        ELSE add_output(self, << "<!--" >> \o data \o << "-->" >>)

\* TagSoupToXml.handle_finish
handle_finish(self) ==
    LET s1 == pop_n(self, Len(self.tagstack))
        s2 == IF s1.html_tag = NoneStr
              THEN [s1 EXCEPT !.html_tag = << "<", "html", ">" >>] ELSE s1
        s3 == IF s2.head_tag = NoneStr
              THEN [s2 EXCEPT !.head_tag = << "<", "head", ">" >>] ELSE s2
    IN  IF s3.body_tag = NoneStr
        THEN [s3 EXCEPT !.body_tag = << "<", "body", ">" >>,
                        !.body_content = s3.head_content,
                        !.head_content = << >>]
        ELSE s3

\* TagSoupToXml.toxml, after its self.close(): list + None is a TypeError
toxml(self) ==
    IF self.head_content = NoneList \/ self.body_content = NoneList
    THEN TypeError
    ELSE prologue \o self.html_tag \o self.head_tag
         \o Concat(self.head_content)
         \o << "</", "head", ">" >> \o self.body_tag
         \o Concat(self.body_content)
         \o << "</", "body", ">", "</", "html", ">" >>

\* The most tokens one parser is fed
MaxTokens == 3

TagNames == {"html", "head", "body", "p", "P", "br", "ul", "li", "dl", "dd"}
AttrLists == {<< >>, << << "b", << "<" >> >>, << "a", << "1" >> >> >>}
DataTexts == {<< "x", "&" >>}
CommentTexts == {<< "c", "-", "-" >>}

\* The parser object as a record of its fields
Self ==
    [tagstack |-> tagstack, output_buffer |-> output_buffer,
     html_tag |-> html_tag, head_tag |-> head_tag,
     head_content |-> head_content, body_tag |-> body_tag,
     body_content |-> body_content, omit_comments |-> omit_comments]

SetSelf(self) ==
    /\ tagstack' = self.tagstack
    /\ output_buffer' = self.output_buffer
    /\ html_tag' = self.html_tag
    /\ head_tag' = self.head_tag
    /\ head_content' = self.head_content
    /\ body_tag' = self.body_tag
    /\ body_content' = self.body_content
    /\ omit_comments' = self.omit_comments

\* TagSoupToXml(omit_comments) and reset()
SoupInit ==
    /\ tagstack = << >>
    /\ output_buffer = NoneList
    /\ html_tag = NoneStr
    /\ head_tag = NoneStr
    /\ head_content = NoneList
    /\ body_tag = NoneStr
    /\ body_content = NoneList
    /\ omit_comments \in BOOLEAN
    /\ fed = 0
    /\ closed = FALSE
    /\ xml = NotCalled

SoupIdle ==
    /\ tagstack = << >>
    /\ output_buffer = NoneList
    /\ html_tag = NoneStr
    /\ head_tag = NoneStr
    /\ head_content = NoneList
    /\ body_tag = NoneStr
    /\ body_content = NoneList
    /\ omit_comments = FALSE
    /\ fed = 0
    /\ closed = FALSE
    /\ xml = NotCalled

Feeding == fed < MaxTokens /\ ~closed /\ xml = NotCalled

StartTag(tagname, attributes) ==
    /\ Feeding
    /\ SetSelf(handle_starttag(Self, tagname, attributes))
    /\ fed' = fed + 1
    /\ UNCHANGED << closed, xml >>
    /\ UNCHANGED notSoupVars

EndTag(tagname) ==
    /\ Feeding
    /\ SetSelf(handle_endtag(Self, tagname))
    /\ fed' = fed + 1
    /\ UNCHANGED << closed, xml >>
    /\ UNCHANGED notSoupVars

Data(data) ==
    /\ Feeding
    /\ SetSelf(handle_data(Self, data))
    /\ fed' = fed + 1
    /\ UNCHANGED << closed, xml >>
    /\ UNCHANGED notSoupVars

Comment(data) ==
    /\ Feeding
    /\ SetSelf(handle_comment(Self, data))
    /\ fed' = fed + 1
    /\ UNCHANGED << closed, xml >>
    /\ UNCHANGED notSoupVars

\* close(): handle_finish
Close ==
    /\ ~closed
    /\ xml = NotCalled
    /\ SetSelf(handle_finish(Self))
    /\ closed' = TRUE
    /\ UNCHANGED << fed, xml >>
    /\ UNCHANGED notSoupVars

\* toxml(): close(), then the join of the document's parts
ToXml ==
    /\ xml = NotCalled
    /\ SetSelf(handle_finish(Self))
    /\ closed' = TRUE
    /\ xml' = toxml(handle_finish(Self))
    /\ UNCHANGED fed
    /\ UNCHANGED notSoupVars

SoupNext ==
    \/ \E tagname \in TagNames, attributes \in AttrLists :
           StartTag(tagname, attributes)
    \/ \E tagname \in TagNames : EndTag(tagname)
    \/ \E data \in DataTexts : Data(data)
    \/ \E data \in CommentTexts : Comment(data)
    \/ Close
    \/ ToXml

(***************************************************************************)
(* NamespaceNormalization.py.                                              *)
(*                                                                         *)
(* A prefix, a namespace URI and an attribute value are atoms; None is    *)
(* the atom "None" and the empty string is "".  A Python dict whose order *)
(* shows (the declarations of an element) is a sequence of (key, value)   *)
(* pairs in insertion order; the two dicts of a NamespaceScope are         *)
(* functions.  An element is a record of its prefix, its namespaceURI and  *)
(* its attribute nodes, in document order; a tree is the sequence of the   *)
(* elements of one branch, each the parent of the next.                    *)
(***************************************************************************)

None == "None"
EMPTY_NAMESPACE == None
XMLNS_NAMESPACE == "http://www.w3.org/2000/xmlns/"

\* d[k] = v on a dict held as a function
Put(d, k, v) == [x \in DOMAIN d \cup {k} |-> IF x = k THEN v ELSE d[x]]

\* k in d, d[k], d[k] = v and del d[k] on a dict held in insertion order
DictHas(items, k) == \E i \in 1..Len(items) : items[i][1] = k
DictGet(items, k) == items[CHOOSE i \in 1..Len(items) : items[i][1] = k][2]
DictSet(items, k, v) ==
    IF DictHas(items, k)
    THEN [i \in 1..Len(items) |-> IF items[i][1] = k THEN << k, v >> ELSE items[i]]
    ELSE Append(items, << k, v >>)
DictDel(items, k) == SelectSeq(items, LAMBDA kv : kv[1] # k)

\* NamespaceScope(): prefix -> namespace, namespace -> most recent prefix
NamespaceScope ==
    [prefixes |-> [x \in {None} |-> EMPTY_NAMESPACE],
     namespaces |-> [x \in {EMPTY_NAMESPACE} |-> None]]

\* NamespaceScope.__setitem__
setitem(scope, prefix, namespace) ==
    [prefixes |-> Put(scope.prefixes, prefix, namespace),
     namespaces |-> Put(scope.namespaces, namespace, prefix)]

has_prefix(scope, prefix) == prefix \in DOMAIN scope.prefixes
has_namespace(scope, namespaceURI) == namespaceURI \in DOMAIN scope.namespaces
prefix_from_namespace(scope, namespace) == scope.namespaces[namespace]

\* NamespaceScope.update: the merged scope and the duplicate prefixes
RECURSIVE update(_, _, _)
update(scope, items, duplicate_prefixes) ==
    IF items = << >>
    THEN [scope |-> scope, duplicate_prefixes |-> duplicate_prefixes]
    ELSE LET prefix == items[1][1]
             namespace == items[1][2]
         IN  update(setitem(scope, prefix, namespace), Tail(items),
                    IF has_prefix(scope, prefix) /\ scope.prefixes[prefix] = namespace
                    THEN Append(duplicate_prefixes, prefix)
                    ELSE duplicate_prefixes)

\* get_namespace_declarations: the loop over element.attributes
RECURSIVE declarations_loop(_, _)
declarations_loop(attributes, declarations) ==
    IF attributes = << >>
    THEN [error |-> "none", declarations |-> declarations]
    ELSE LET attrNode == attributes[1]
         IN  IF attrNode.namespaceURI # XMLNS_NAMESPACE
             THEN declarations_loop(Tail(attributes), declarations)
             ELSE IF attrNode.localName = "xmlns" /\ attrNode.prefix = None
             THEN declarations_loop(Tail(attributes),
                                    DictSet(declarations, None, attrNode.nodeValue))
             ELSE IF /\ attrNode.prefix = "xmlns"
                     /\ attrNode.nodeValue \notin {XMLNS_NAMESPACE, None, ""}
             THEN declarations_loop(Tail(attributes),
                                    DictSet(declarations, attrNode.localName,
                                            attrNode.nodeValue))
             ELSE [error |-> "ValueError", declarations |-> << >>]

get_namespace_declarations(element) ==
    declarations_loop(element.attributes, << >>)

\* element.setAttributeNS(XMLNS_NAMESPACE, 'xmlns' or 'xmlns:' + prefix, value)
xmlns_attribute(prefix, value) ==
    IF prefix = None
    THEN [namespaceURI |-> XMLNS_NAMESPACE, prefix |-> None,
          localName |-> "xmlns", nodeValue |-> value]
    ELSE [namespaceURI |-> XMLNS_NAMESPACE, prefix |-> "xmlns",
          localName |-> prefix, nodeValue |-> value]

\* A variant that leaves the declarations of the element as they were
replace_namespace_declarations_Kept(element, new_prefixes) == element

\* replace_namespace_declarations
replace_namespace_declarations(element, new_prefixes) ==
    [element EXCEPT !.attributes =
        SelectSeq(@, LAMBDA attrNode : attrNode.namespaceURI # XMLNS_NAMESPACE)
        \o [i \in 1..Len(new_prefixes) |->
               xmlns_attribute(new_prefixes[i][1],
                               IF new_prefixes[i][2] = None THEN ""
                               ELSE new_prefixes[i][2])]]

\* change_attribute_prefix: its first statement reads attrNode.NODE_TYPE,
\* which an Attr does not have
change_attribute_prefix(attrNode, prefix) == "AttributeError"

\* "NS%d" % (j,) for the first j whose prefix is not in scope
generated_prefix(current_prefixes) ==
    LET names == << "NS1", "NS2", "NS3" >>
    IN  names[CHOOSE j \in 1..3 :
                  /\ ~has_prefix(current_prefixes, names[j])
                  /\ \A k \in 1..(j - 1) : has_prefix(current_prefixes, names[k])]

\* normalize_namespaces: the loop over the attributes of the element
RECURSIVE fix_attributes(_, _, _)
fix_attributes(attributes, new_prefixes, current_prefixes) ==
    IF attributes = << >>
    THEN [error |-> "none", new_prefixes |-> new_prefixes,
          current_prefixes |-> current_prefixes]
    ELSE LET attrNode == attributes[1]
         IN  IF attrNode.namespaceURI = XMLNS_NAMESPACE
             THEN fix_attributes(Tail(attributes), new_prefixes, current_prefixes)
             ELSE IF attrNode.namespaceURI = EMPTY_NAMESPACE
             THEN fix_attributes(Tail(attributes), new_prefixes, current_prefixes)
             ELSE IF /\ attrNode.prefix \notin {None, ""}
                     /\ has_prefix(current_prefixes, attrNode.prefix)
                     /\ current_prefixes.prefixes[attrNode.prefix] = attrNode.namespaceURI
             THEN fix_attributes(Tail(attributes), new_prefixes, current_prefixes)
             ELSE IF has_namespace(current_prefixes, attrNode.namespaceURI)
             THEN \* current_prefix is not a name of the function
                  [error |-> "NameError", new_prefixes |-> new_prefixes,
                   current_prefixes |-> current_prefixes]
             ELSE IF ~has_prefix(current_prefixes, attrNode.prefix)
             THEN fix_attributes(Tail(attributes),
                                 DictSet(new_prefixes, attrNode.prefix,
                                         attrNode.namespaceURI),
                                 setitem(current_prefixes, attrNode.prefix,
                                         attrNode.namespaceURI))
             ELSE [error |-> change_attribute_prefix(
                                 attrNode, generated_prefix(current_prefixes)),
                   new_prefixes |-> new_prefixes,
                   current_prefixes |-> current_prefixes]

\* del new_prefixes[prefix] for each duplicate prefix
RECURSIVE delete_prefixes(_, _)
delete_prefixes(new_prefixes, duplicate_prefixes) ==
    IF duplicate_prefixes = << >> THEN new_prefixes
    ELSE delete_prefixes(DictDel(new_prefixes, duplicate_prefixes[1]),
                         Tail(duplicate_prefixes))

\* The HACK of normalize_namespaces: drop an xmlns='' that need not be there
remove_empty_xmlns(element, new_prefixes, parent_prefixes) ==
    IF /\ DictHas(new_prefixes, None)
       /\ DictGet(new_prefixes, None) = EMPTY_NAMESPACE
       /\ parent_prefixes.prefixes[None] = EMPTY_NAMESPACE
       /\ \E i \in 1..Len(element.attributes) :
              /\ element.attributes[i].namespaceURI = XMLNS_NAMESPACE
              /\ element.attributes[i].localName = "xmlns"
              /\ element.attributes[i].nodeValue = ""
    THEN [element EXCEPT !.attributes =
             SelectSeq(@, LAMBDA attrNode :
                 ~(attrNode.namespaceURI = XMLNS_NAMESPACE
                   /\ attrNode.localName = "xmlns"))]
    ELSE element

\* normalize_namespaces, up to the recursion: the element as it is left and
\* the scope its children get
normalize_element(element, strip_dups_arg, parent_prefixes) ==
    LET got == get_namespace_declarations(element)
        merged == update(parent_prefixes, got.declarations, << >>)
        new0 == IF strip_dups_arg
                THEN delete_prefixes(got.declarations, merged.duplicate_prefixes)
                ELSE got.declarations
        current0 == merged.scope
        in_scope == /\ has_prefix(current0, element.prefix)
                    /\ current0.prefixes[element.prefix] = element.namespaceURI
        new1 == IF in_scope THEN new0
                ELSE DictSet(new0, element.prefix, element.namespaceURI)
        current1 == IF in_scope THEN current0
                    ELSE setitem(current0, element.prefix, element.namespaceURI)
        fixed == fix_attributes(element.attributes, new1, current1)
        failed(error) == [error |-> error, element |-> element,
                          current_prefixes |-> parent_prefixes]
    IN  IF got.error # "none" THEN failed(got.error)
        ELSE IF /\ ~in_scope
                /\ element.namespaceURI = EMPTY_NAMESPACE
                /\ element.prefix # None
        THEN failed("ValueError")
        ELSE IF fixed.error # "none" THEN failed(fixed.error)
        ELSE [error |-> "none",
              element |-> remove_empty_xmlns(
                              replace_namespace_declarations(element, fixed.new_prefixes),
                              fixed.new_prefixes, parent_prefixes),
              current_prefixes |-> fixed.current_prefixes]

\* normalize_namespaces(element, strip_dups, parent_prefixes) on element i
\* of the branch, with the recursion over its child elements
RECURSIVE normalize_from(_, _, _, _)
normalize_from(tree, i, strip_dups_arg, parent_prefixes) ==
    LET done == normalize_element(tree[i], strip_dups_arg, parent_prefixes)
        changed == [tree EXCEPT ![i] = done.element]
    IN  IF done.error # "none" THEN [error |-> done.error, tree |-> tree]
        ELSE IF i = Len(tree) THEN [error |-> "none", tree |-> changed]
        ELSE normalize_from(changed, i + 1, strip_dups_arg, done.current_prefixes)

\* parent_prefixes is None: the scope the ancestors of element i declare
RECURSIVE ancestry_scope(_, _, _)
ancestry_scope(tree, i, first) ==
    IF first >= i THEN [error |-> "none", scope |-> NamespaceScope]
    ELSE LET above == ancestry_scope(tree, i - 1, first)
             got == get_namespace_declarations(tree[i - 1])
         IN  IF above.error # "none" THEN above
             ELSE IF got.error # "none"
             THEN [error |-> got.error, scope |-> NamespaceScope]
             ELSE [error |-> "none",
                   scope |-> update(above.scope, got.declarations, << >>).scope]

\* normalize_namespaces(element, strip_dups)
normalize_namespaces(tree, i, strip_dups_arg) ==
    LET parents == ancestry_scope(tree, i, 1)
    IN  IF parents.error # "none" THEN [error |-> parents.error, tree |-> tree]
        ELSE normalize_from(tree, i, strip_dups_arg, parents.scope)

\* The most calls of normalize_namespaces on one document
MaxRuns == 2

ElementPrefixes == {None, "p"}
NamespaceURIs == {EMPTY_NAMESPACE, "A", "B"}

\* The xmlns attributes an element starts with: none, xmlns="" as the
\* parser stores it (a None value), or a URI; none, a URI, or the illegal ""
DefaultDeclarations ==
    {<< >>} \cup {<< xmlns_attribute(None, v) >> : v \in {None, "A"}}
PrefixDeclarations ==
    {<< >>} \cup {<< xmlns_attribute("p", v) >> : v \in {"A", "B", ""}}

\* The other attributes an element starts with: none, p:x in A, q:x in B
OtherAttributes ==
    {<< >>,
     << [namespaceURI |-> "A", prefix |-> "p", localName |-> "x", nodeValue |-> "1"] >>,
     << [namespaceURI |-> "B", prefix |-> "q", localName |-> "x", nodeValue |-> "1"] >>}

Elements ==
    {[prefix |-> prefix, namespaceURI |-> namespaceURI, attributes |-> d \o pd \o a] :
        prefix \in ElementPrefixes, namespaceURI \in NamespaceURIs,
        d \in DefaultDeclarations, pd \in PrefixDeclarations, a \in OtherAttributes}

\* A document: a root element and one child element
Trees == {<< root, child >> : root \in Elements, child \in Elements}

NsInit ==
    /\ dom \in Trees
    /\ strip_dups \in BOOLEAN
    /\ ns_calls = << >>
    /\ dom_before = dom
    /\ ns_error = "none"

NsIdle ==
    /\ dom = << >>
    /\ strip_dups = FALSE
    /\ ns_calls = << >>
    /\ dom_before = << >>
    /\ ns_error = "none"

\* normalize_namespaces(element, strip_dups) on element i of the document
Normalize(i) ==
    /\ Len(ns_calls) < MaxRuns
    /\ ns_error = "none"
    /\ LET done == normalize_namespaces(dom, i, strip_dups)
       IN  /\ dom' = done.tree
           /\ ns_error' = done.error
    /\ dom_before' = dom
    /\ ns_calls' = Append(ns_calls, i)
    /\ UNCHANGED strip_dups
    /\ UNCHANGED notNsVars

NsNext == \E i \in 1..2 : Normalize(i)

\* The most runs of the script, and the last tick of the clock
MaxBuildRuns == 2
MaxClock == 3

\* Page /a carries an atom:entry; page /i carries a news placeholder; /f is
\* the feed
Pages == {"a", "i"}
Feed == "f"
Targets == Pages \cup {Feed}
has_entry(target) == target = "a"
has_news(target) == target = "i"

\* TypicalPaths.output_filename and the files of the feed data directory
output_filename(target) == << "output", target >>
stamp_filename(target) == << "stamp", target >>
data_filename(target) == << "data", target >>
FileNames ==
    {output_filename(t) : t \in Targets}
    \cup {stamp_filename(t) : t \in Pages} \cup {data_filename(t) : t \in Pages}

Absent == [state |-> "absent", mtime |-> 0]
Complete(mtime) == [state |-> "complete", mtime |-> mtime]
Partial(mtime) == [state |-> "partial", mtime |-> mtime]

\* os.path.exists
exists(filename) == fs[filename].state # "absent"

\* The template all the pages are made with; source_mtime holds the
\* modification times of the files a build reads: the sources and the template
Template == "template"
template_mtime == source_mtime[Template]

Scripts ==
    {<< [cmd |-> "make", target |-> "a"], [cmd |-> "make", target |-> "i"] >>,
     << [cmd |-> "make", target |-> "a"], [cmd |-> "make_atom_feed", target |-> Feed] >>,
     << [cmd |-> "make", target |-> "a"], [cmd |-> "make_atom_feed", target |-> Feed],
        [cmd |-> "set_news_feed", target |-> Feed], [cmd |-> "make", target |-> "i"] >>,
     << [cmd |-> "set_news_feed", target |-> Feed], [cmd |-> "make", target |-> "a"],
        [cmd |-> "make_atom_feed", target |-> Feed] >>}

BuildInit ==
    /\ \E old \in BOOLEAN :
          fs = [f \in FileNames |->
                   IF old /\ f[1] = "output" THEN Complete(0) ELSE Absent]
    /\ data_dir = FALSE
    /\ now = 1
    /\ plugins \in SUBSET {"FeedGenerator", "NewsPlugin"}
    /\ script \in Scripts
    /\ source_mtime \in [Targets \cup {Template} -> {0, 1}]
    /\ source_mtime[Feed] = 0
    /\ feed_url = None
    /\ run = 0
    /\ cmd = 1
    /\ pc = "stopped"
    /\ outcomes = << >>
    /\ history = << >>
    /\ had_output = {t \in Targets : exists(output_filename(t))}

BuildIdle ==
    /\ fs = [f \in FileNames |-> Absent]
    /\ data_dir = FALSE
    /\ now = 1
    /\ plugins = {}
    /\ script = << >>
    /\ source_mtime = [t \in Targets \cup {Template} |-> 0]
    /\ feed_url = None
    /\ run = 0
    /\ cmd = 1
    /\ pc = "stopped"
    /\ outcomes = << >>
    /\ history = << >>
    /\ had_output = {}

\* The command the run is at, and its target
Command == script[cmd]
current_target_url == Command.target
At(step, name) == pc = step /\ cmd <= Len(script) /\ Command.cmd = name

\* A check that also takes an output as old as its newest input for stale
PG_NeedsUpdate_OrEqual(target) ==
    \/ ~exists(output_filename(target))
    \/ \E m \in {template_mtime, source_mtime[target]} :
           m >= fs[output_filename(target)].mtime

\* PageGenerator.check_freshness before its filters: NeedsUpdate is raised
PG_NeedsUpdate(target) ==
    \/ ~exists(output_filename(target))
    \/ \E m \in {template_mtime, source_mtime[target]} :
           m > fs[output_filename(target)].mtime

\* FeedGeneratorPlugin._check_freshness: NeedsUpdate is raised
FG_NeedsUpdate(target) ==
    \/ ~exists(stamp_filename(target))
    \/ fs[output_filename(target)].mtime > fs[stamp_filename(target)].mtime

\* NewsPlugin._check_freshness: NeedsUpdate is raised
NP_NeedsUpdate(target) ==
    /\ feed_url # None
    /\ \/ ~exists(output_filename(feed_url))
       \/ ~exists(output_filename(target))
       \/ fs[output_filename(feed_url)].mtime > fs[output_filename(target)].mtime

\* PageGenerator.check_freshness with the registered filters, in the order
\* the plugins register them
NeedsUpdate(target) ==
    \/ PG_NeedsUpdate(target)
    \/ "FeedGenerator" \in plugins /\ FG_NeedsUpdate(target)
    \/ "NewsPlugin" \in plugins /\ NP_NeedsUpdate(target)

\* handle_make_atom_feed.is_update_needed
is_update_needed(target) ==
    \/ ~exists(output_filename(target))
    \/ fs[output_filename(target)].mtime < source_mtime[target]
    \/ \E p \in Pages :
           /\ exists(stamp_filename(p))
           /\ fs[output_filename(target)].mtime < fs[stamp_filename(p)].mtime

\* The command is over: the run goes on to the next one
Finish(outcome) ==
    /\ outcomes' = [outcomes EXCEPT ![cmd] = outcome]
    /\ cmd' = cmd + 1
    /\ pc' = "next"
    /\ UNCHANGED << run, history >>

\* An exception leaves the command and ends the run
Raise ==
    /\ pc' = "stopped"
    /\ history' = Append(history, "failed")
    /\ UNCHANGED << run, cmd, outcomes >>

\* A pipeline that writes the page without serializing it first
Stay_Unserialized(step) ==
    /\ pc' = IF step = "generate_output" THEN "write_output" ELSE step
    /\ UNCHANGED << run, cmd, outcomes, history >>

\* The command goes on to its next step
Stay(step) ==
    /\ pc' = step
    /\ UNCHANGED << run, cmd, outcomes, history >>

\* process_script starts
StartRun ==
    /\ pc = "stopped"
    /\ run < MaxBuildRuns
    /\ run' = run + 1
    /\ cmd' = 1
    /\ pc' = "next"
    /\ feed_url' = None
    /\ outcomes' = [i \in 1..Len(script) |-> "pending"]
    /\ UNCHANGED << fs, data_dir, now, plugins, script, source_mtime,
                    history, had_output >>
    /\ UNCHANGED notBuildVars

\* process_script reaches the end of the script
FinishRun ==
    /\ pc = "next"
    /\ cmd > Len(script)
    /\ pc' = "stopped"
    /\ history' = Append(history, "ok")
    /\ UNCHANGED << fs, data_dir, now, plugins, script, source_mtime,
                    feed_url, run, cmd, outcomes, had_output >>
    /\ UNCHANGED notBuildVars

\* Time passes
Tick ==
    /\ now < MaxClock
    /\ now' = now + 1
    /\ UNCHANGED << fs, data_dir, plugins, script, source_mtime, feed_url,
                    run, cmd, pc, outcomes, history, had_output >>
    /\ UNCHANGED notBuildVars

\* exec_command on a command no plugin has registered
UnknownCommand ==
    /\ pc = "next" /\ cmd <= Len(script)
    /\ \/ Command.cmd = "make_atom_feed" /\ "FeedGenerator" \notin plugins
       \/ Command.cmd = "set_news_feed" /\ "NewsPlugin" \notin plugins
    /\ Raise
    /\ UNCHANGED << fs, data_dir, now, plugins, script, source_mtime,
                    feed_url, had_output >>
    /\ UNCHANGED notBuildVars

\* NewsPlugin.handle_set_news_feed
handle_set_news_feed ==
    /\ At("next", "set_news_feed")
    /\ "NewsPlugin" \in plugins
    /\ feed_url' = current_target_url
    /\ Finish("done")
    /\ UNCHANGED << fs, data_dir, now, plugins, script, source_mtime, had_output >>
    /\ UNCHANGED notBuildVars

\* handle_make up to the verdict of check_freshness: skipping, or making
check_freshness ==
    /\ At("next", "make")
    /\ data_dir' = (data_dir \/ ("FeedGenerator" \in plugins
                                 /\ ~PG_NeedsUpdate(current_target_url)))
    /\ IF NeedsUpdate(current_target_url) THEN Stay("init_page") ELSE Finish("skipped")
    /\ UNCHANGED << fs, now, plugins, script, source_mtime, feed_url, had_output >>
    /\ UNCHANGED notBuildVars

\* PageGenerator.init_page
init_page ==
    /\ At("init_page", "make")
    /\ Stay("load_content")
    /\ UNCHANGED << fs, data_dir, now, plugins, script, source_mtime,
                    feed_url, had_output >>
    /\ UNCHANGED notBuildVars

\* PageGenerator.load_content, with FeedGeneratorPlugin._load_content:
\* _write_entry_data for a page with an entry, _clear_entry_data without
load_content ==
    /\ At("load_content", "make")
    /\ IF "FeedGenerator" \in plugins
       THEN /\ data_dir' = TRUE
            /\ fs' = IF has_entry(current_target_url)
                     THEN [fs EXCEPT ![data_filename(current_target_url)] = Complete(now)]
                     ELSE [fs EXCEPT ![data_filename(current_target_url)] = Absent,
                                     ![stamp_filename(current_target_url)] = Absent]
       ELSE UNCHANGED << fs, data_dir >>
    /\ Stay("generate_page")
    /\ UNCHANGED << now, plugins, script, source_mtime, feed_url, had_output >>
    /\ UNCHANGED notBuildVars

\* PageGenerator.generate_page, with NewsPlugin._handle_news_element, which
\* reads the feed's output file
generate_page ==
    /\ At("generate_page", "make")
    /\ IF /\ "NewsPlugin" \in plugins
          /\ has_news(current_target_url)
          /\ (feed_url = None \/ fs[output_filename(Feed)].state # "complete")
       THEN Raise
       ELSE Stay("generate_output")
    /\ UNCHANGED << fs, data_dir, now, plugins, script, source_mtime,
                    feed_url, had_output >>
    /\ UNCHANGED notBuildVars

\* PageGenerator.generate_output
generate_output ==
    /\ At("generate_output", "make")
    /\ Stay("write_output")
    /\ UNCHANGED << fs, data_dir, now, plugins, script, source_mtime,
                    feed_url, had_output >>
    /\ UNCHANGED notBuildVars

\* write_output: if os.path.exists(output_filename): os.unlink(...)
write_output_unlink ==
    /\ At("write_output", "make")
    /\ fs' = [fs EXCEPT ![output_filename(current_target_url)] = Absent]
    /\ Stay("open")
    /\ UNCHANGED << data_dir, now, plugins, script, source_mtime, feed_url,
                    had_output >>
    /\ UNCHANGED notBuildVars

\* write_output: f = open(output_filename, "wb")
write_output_open ==
    /\ At("open", "make")
    /\ fs' = [fs EXCEPT ![output_filename(current_target_url)] = Partial(now)]
    /\ Stay("write")
    /\ UNCHANGED << data_dir, now, plugins, script, source_mtime, feed_url,
                    had_output >>
    /\ UNCHANGED notBuildVars

\* write_output: f.write(self.output)
write_output_write ==
    /\ At("write", "make")
    /\ fs' = [fs EXCEPT ![output_filename(current_target_url)] = Partial(now)]
    /\ Stay("close")
    /\ UNCHANGED << data_dir, now, plugins, script, source_mtime, feed_url,
                    had_output >>
    /\ UNCHANGED notBuildVars

\* write_output: f.close()
write_output_close ==
    /\ At("close", "make")
    /\ fs' = [fs EXCEPT ![output_filename(current_target_url)] = Complete(now)]
    /\ had_output' = had_output \cup {current_target_url}
    /\ Stay("write_output:after")
    /\ UNCHANGED << data_dir, now, plugins, script, source_mtime, feed_url >>
    /\ UNCHANGED notBuildVars

\* write_output: the write_output:after filters, that is
\* FeedGeneratorPlugin._update_entry_timestamp
write_output_after ==
    /\ At("write_output:after", "make")
    /\ IF "FeedGenerator" \in plugins
       THEN /\ data_dir' = TRUE
            /\ fs' = [fs EXCEPT ![stamp_filename(current_target_url)] = Complete(now)]
       ELSE UNCHANGED << fs, data_dir >>
    /\ Finish("made")
    /\ UNCHANGED << now, plugins, script, source_mtime, feed_url, had_output >>
    /\ UNCHANGED notBuildVars

\* handle_make_atom_feed up to the verdict of is_update_needed
feed_check ==
    /\ At("next", "make_atom_feed")
    /\ "FeedGenerator" \in plugins
    /\ data_dir' = TRUE
    /\ IF is_update_needed(current_target_url) THEN Stay("feed_load") ELSE Finish("skipped")
    /\ UNCHANGED << fs, now, plugins, script, source_mtime, feed_url, had_output >>
    /\ UNCHANGED notBuildVars

\* handle_make_atom_feed: load the entries, build the feed document
feed_load ==
    /\ At("feed_load", "make_atom_feed")
    /\ IF \E p \in Pages : exists(stamp_filename(p))
                           /\ fs[data_filename(p)].state = "complete"
       THEN Stay("feed_unlink")
       ELSE Raise
    /\ UNCHANGED << fs, data_dir, now, plugins, script, source_mtime,
                    feed_url, had_output >>
    /\ UNCHANGED notBuildVars

\* handle_make_atom_feed: if os.path.exists(...): os.unlink(...)
feed_unlink ==
    /\ At("feed_unlink", "make_atom_feed")
    /\ fs' = [fs EXCEPT ![output_filename(current_target_url)] = Absent]
    /\ Stay("feed_open")
    /\ UNCHANGED << data_dir, now, plugins, script, source_mtime, feed_url,
                    had_output >>
    /\ UNCHANGED notBuildVars

\* handle_make_atom_feed: output_file = open(tp.output_filename, "wb")
feed_open ==
    /\ At("feed_open", "make_atom_feed")
    /\ fs' = [fs EXCEPT ![output_filename(current_target_url)] = Partial(now)]
    /\ Stay("feed_write")
    /\ UNCHANGED << data_dir, now, plugins, script, source_mtime, feed_url,
                    had_output >>
    /\ UNCHANGED notBuildVars

\* handle_make_atom_feed: output_file.write(...) and output_file.close()
feed_write ==
    /\ At("feed_write", "make_atom_feed")
    /\ fs' = [fs EXCEPT ![output_filename(current_target_url)] = Complete(now)]
    /\ had_output' = had_output \cup {current_target_url}
    /\ Finish("made")
    /\ UNCHANGED << data_dir, now, plugins, script, source_mtime, feed_url >>
    /\ UNCHANGED notBuildVars

\* handle_make_atom_feed: the write raises; except: os.unlink(...); raise
feed_write_fails ==
    /\ At("feed_write", "make_atom_feed")
    /\ fs' = [fs EXCEPT ![output_filename(current_target_url)] = Absent]
    /\ Raise
    /\ UNCHANGED << data_dir, now, plugins, script, source_mtime, feed_url,
                    had_output >>
    /\ UNCHANGED notBuildVars

\* Any other stage raises (a file that cannot be read or parsed, a filter
\* that fails, a disk that is full), or the process is stopped
Fail ==
    /\ pc \notin {"stopped", "next", "feed_write"}
    /\ Raise
    /\ UNCHANGED << fs, data_dir, now, plugins, script, source_mtime,
                    feed_url, had_output >>
    /\ UNCHANGED notBuildVars

BuildNext ==
    \/ StartRun
    \/ FinishRun
    \/ Tick
    \/ UnknownCommand
    \/ handle_set_news_feed
    \/ check_freshness
    \/ init_page
    \/ load_content
    \/ generate_page
    \/ generate_output
    \/ write_output_unlink
    \/ write_output_open
    \/ write_output_write
    \/ write_output_close
    \/ write_output_after
    \/ feed_check
    \/ feed_load
    \/ feed_unlink
    \/ feed_open
    \/ feed_write
    \/ feed_write_fails
    \/ Fail

\* The most calls of math_placeholder
MaxCalls == 2

\* Pieces of TeX code: empty, blank, x with and without blanks around it,
\* {x} (the same canonical code as x), y, one texvc_tex cannot parse and
\* one texvc cannot render
Codes ==
    {<< >>, << " " >>, << "x" >>, << " ", "x", " " >>, << "{", "x", "}" >>,
     << "y" >>, << "\\" >>, << "\\", "q" >>}

\* hashlib.md5(s).hexdigest(), one digest per text
md5(s) == << "md5" >> \o s

\* The output of texvc_tex: the code in canonical form, empty when it
\* cannot parse it
texvc_tex(code) ==
    IF code = << "\\" >> THEN << >>
    ELSE SelectSeq(code, LAMBDA c : c \notin {"{", "}"})

\* Texvc.hash_code: the canonical md5, or the error it raises
hash_code(code) ==
    IF code = << >> \/ texvc_tex(code) = << >> THEN << "TexvcCodeParseError" >>
    ELSE md5(texvc_tex(code))

\* Texvc.run_texvc with parse_result: the result of rendering the code, or
\* the error it raises
run_texvc(code) ==
    IF code = << "\\", "q" >> THEN [error |-> "TexvcError", md5 |-> << >>, html |-> << >>]
    ELSE [error |-> "none", md5 |-> md5(texvc_tex(code)), html |-> texvc_tex(code)]

NoResult == [error |-> "none", md5 |-> << >>, html |-> << >>]

\* A result file that open(result_filename, "wb") has truncated and no
\* pickle.dump has filled: pickle.load raises on it
Truncated == [error |-> "truncated", md5 |-> << >>, html |-> << >>]

\* The files of the cache: the sums, the results, the stamps, the images
CacheFiles == << orig_sums, results, stamps, pngs >>

\* A variant that never finds the output in the cache
cache_hit_Never(key) == FALSE

\* if os.path.exists(stamp_filename) and os.path.exists(output_filename)
cache_hit(key) == key \in stamps /\ key \in pngs

TexInit ==
    /\ orig_sums = << >>
    /\ results = << >>
    /\ stamps = {}
    /\ pngs = {}
    /\ texvc_runs = << >>
    /\ tex_calls = << >>
    /\ tex_pc = "idle"
    /\ latex_code = << >>
    /\ canonical_md5 = << >>
    /\ result = NoResult
    /\ files_at_call = << << >>, << >>, {}, {} >>

\* The call is over: with a result, with ReplaceWithNothing, or an error
Return(outcome, hit, value) ==
    /\ tex_calls' = Append(tex_calls,
                           [latex_code |-> latex_code, outcome |-> outcome,
                            hit |-> hit, result |-> value])
    /\ tex_pc' = "idle"

\* math_placeholder(latex_code): strip, the empty check
math_placeholder(code) ==
    /\ tex_pc = "idle"
    /\ Len(tex_calls) < MaxCalls
    /\ latex_code' = Strip(code, " ")
    /\ IF Strip(code, " ") = << >>
       THEN /\ tex_calls' = Append(tex_calls,
                                   [latex_code |-> << >>, outcome |-> "nothing",
                                    hit |-> FALSE, result |-> NoResult])
            /\ tex_pc' = "idle"
       ELSE /\ tex_pc' = "read_sum"
            /\ UNCHANGED tex_calls
    /\ canonical_md5' = << >>
    /\ result' = NoResult
    /\ files_at_call' = CacheFiles
    /\ UNCHANGED << orig_sums, results, stamps, pngs, texvc_runs >>
    /\ UNCHANGED notTexVars

\* math_placeholder: the canonical md5, from the cache file or hash_code
read_sum ==
    /\ tex_pc = "read_sum"
    /\ IF DictHas(orig_sums, md5(latex_code))
       THEN /\ canonical_md5' = DictGet(orig_sums, md5(latex_code))
            /\ tex_pc' = "lookup"
            /\ UNCHANGED << orig_sums, tex_calls >>
       ELSE IF hash_code(latex_code) = << "TexvcCodeParseError" >>
       THEN /\ Return("error", FALSE, NoResult)
            /\ UNCHANGED << orig_sums, canonical_md5 >>
       ELSE /\ canonical_md5' = hash_code(latex_code)
            /\ orig_sums' = DictSet(orig_sums, md5(latex_code), hash_code(latex_code))
            /\ tex_pc' = "lookup"
            /\ UNCHANGED tex_calls
    /\ UNCHANGED << results, stamps, pngs, texvc_runs, latex_code, result >>
    /\ UNCHANGED files_at_call
    /\ UNCHANGED notTexVars

\* A cache test that takes a stored result with another md5 for a miss
lookup_SoftMiss ==
    /\ tex_pc = "lookup"
    /\ IF ~cache_hit(canonical_md5)
          \/ ~DictHas(results, canonical_md5)
          \/ DictGet(results, canonical_md5).md5 # canonical_md5
       THEN tex_pc' = "run_texvc" /\ UNCHANGED << tex_calls, result >>
       ELSE /\ result' = DictGet(results, canonical_md5)
            /\ Return("result", TRUE, DictGet(results, canonical_md5))
    /\ UNCHANGED << orig_sums, results, stamps, pngs, texvc_runs,
                    latex_code, canonical_md5 >>
    /\ UNCHANGED files_at_call
    /\ UNCHANGED notTexVars

\* math_placeholder: the cache test, and on a hit the cached result
lookup ==
    /\ tex_pc = "lookup"
    /\ IF ~cache_hit(canonical_md5)
       THEN tex_pc' = "run_texvc" /\ UNCHANGED << tex_calls, result >>
       ELSE IF ~DictHas(results, canonical_md5)
       THEN Return("error", TRUE, NoResult) /\ UNCHANGED result
       ELSE IF DictGet(results, canonical_md5).md5 # canonical_md5
       THEN Return("error", TRUE, NoResult) /\ UNCHANGED result
       ELSE /\ result' = DictGet(results, canonical_md5)
            /\ Return("result", TRUE, DictGet(results, canonical_md5))
    /\ UNCHANGED << orig_sums, results, stamps, pngs, texvc_runs,
                    latex_code, canonical_md5 >>
    /\ UNCHANGED files_at_call
    /\ UNCHANGED notTexVars

\* math_placeholder: result = texvc.run_texvc(latex_code), which writes
\* the image
render ==
    /\ tex_pc = "run_texvc"
    /\ texvc_runs' = Append(texvc_runs, latex_code)
    /\ IF run_texvc(latex_code).error # "none"
       THEN Return("error", FALSE, NoResult) /\ UNCHANGED << result, pngs >>
       ELSE /\ result' = run_texvc(latex_code)
            /\ pngs' = pngs \cup {run_texvc(latex_code).md5}
            /\ tex_pc' = "check"
            /\ UNCHANGED tex_calls
    /\ UNCHANGED << orig_sums, results, stamps, latex_code, canonical_md5 >>
    /\ UNCHANGED files_at_call
    /\ UNCHANGED notTexVars

\* math_placeholder: the md5 of the result, the existence of the image
check_result ==
    /\ tex_pc = "check"
    /\ IF result.md5 # canonical_md5 \/ canonical_md5 \notin pngs
       THEN Return("error", FALSE, NoResult)
       ELSE tex_pc' = "save_result" /\ UNCHANGED tex_calls
    /\ UNCHANGED << orig_sums, results, stamps, pngs, texvc_runs,
                    latex_code, canonical_md5, result >>
    /\ UNCHANGED files_at_call
    /\ UNCHANGED notTexVars

\* math_placeholder: open(result_filename, "wb") of the pickle.dump
open_result ==
    /\ tex_pc = "save_result"
    /\ results' = DictSet(results, canonical_md5, Truncated)
    /\ tex_pc' = "dump"
    /\ UNCHANGED << orig_sums, stamps, pngs, texvc_runs, tex_calls,
                    latex_code, canonical_md5, result >>
    /\ UNCHANGED files_at_call
    /\ UNCHANGED notTexVars

\* A call that goes on to the stamp with the result file still empty
save_result_Lost ==
    /\ tex_pc = "dump"
    /\ tex_pc' = "write_stamp"
    /\ UNCHANGED << orig_sums, results, stamps, pngs, texvc_runs, tex_calls,
                    latex_code, canonical_md5, result >>
    /\ UNCHANGED files_at_call
    /\ UNCHANGED notTexVars

\* math_placeholder: pickle.dump(result, ...), the file written and closed
save_result ==
    /\ tex_pc = "dump"
    /\ results' = DictSet(results, canonical_md5, result)
    /\ tex_pc' = "write_stamp"
    /\ UNCHANGED << orig_sums, stamps, pngs, texvc_runs, tex_calls,
                    latex_code, canonical_md5, result >>
    /\ UNCHANGED files_at_call
    /\ UNCHANGED notTexVars

\* math_placeholder: the stamp file, then the replacement of the placeholder
write_stamp ==
    /\ tex_pc = "write_stamp"
    /\ stamps' = stamps \cup {canonical_md5}
    /\ Return("result", FALSE, result)
    /\ UNCHANGED << orig_sums, results, pngs, texvc_runs,
                    latex_code, canonical_md5, result >>
    /\ UNCHANGED files_at_call
    /\ UNCHANGED notTexVars

\* A file operation of the call raises, or the process is stopped
TexFail ==
    /\ tex_pc # "idle"
    /\ Return("error", FALSE, NoResult)
    /\ UNCHANGED << orig_sums, results, stamps, pngs, texvc_runs,
                    latex_code, canonical_md5, result >>
    /\ UNCHANGED files_at_call
    /\ UNCHANGED notTexVars

\* Between two calls the result file of a key is damaged: it unpickles to
\* a result that carries another md5
Corrupt(key) ==
    /\ tex_pc = "idle"
    /\ DictHas(results, key)
    /\ DictGet(results, key).md5 = key
    /\ results' = DictSet(results, key, [DictGet(results, key) EXCEPT !.md5 = md5(<< "?" >>)])
    /\ UNCHANGED << orig_sums, stamps, pngs, texvc_runs, tex_calls, tex_pc,
                    latex_code, canonical_md5, result >>
    /\ UNCHANGED files_at_call
    /\ UNCHANGED notTexVars

TexNext ==
    \/ \E code \in Codes : math_placeholder(code)
    \/ read_sum
    \/ lookup
    \/ render
    \/ check_result
    \/ open_result
    \/ save_result
    \/ write_stamp
    \/ TexFail

\* The calls of math_placeholder over a cache that gets damaged
TexCorruptNext ==
    \/ TexNext
    \/ \E key \in {md5(texvc_tex(code)) : code \in Codes} : Corrupt(key)

(***************************************************************************)
(* The operations of a NamespaceScope, applied to two objects              *)
(***************************************************************************)

\* The most operations applied to the scopes
MaxScopeOps == 3

ScopeKeys == {None, "p", "q"}
ScopeNamespaces == {EMPTY_NAMESPACE, "A", "B"}

\* The dicts given to update: no, one or two declarations
ScopeDicts ==
    {<< >>}
    \cup {<< << prefix, namespace >> >> :
             prefix \in ScopeKeys, namespace \in ScopeNamespaces}
    \cup {<< << "p", namespace >>, << "q", other >> >> :
             namespace \in {"A", "B"}, other \in {"A", "B"}}

\* NamespaceScope.copy
copy(scope) == [prefixes |-> scope.prefixes, namespaces |-> scope.namespaces]

\* Two objects made by NamespaceScope()
ScopeInit ==
    /\ scopes = [obj \in 1..2 |-> NamespaceScope]
    /\ scope_ops = 0

\* scope[prefix] = namespace
ScopeSetItem(obj, prefix, namespace) ==
    /\ scope_ops < MaxScopeOps
    /\ scopes' = [scopes EXCEPT ![obj] = setitem(@, prefix, namespace)]
    /\ scope_ops' = scope_ops + 1
    /\ UNCHANGED notScopeVars

\* scope.update(namespace_declarations)
ScopeUpdate(obj, namespace_declarations) ==
    /\ scope_ops < MaxScopeOps
    /\ scopes' = [scopes EXCEPT ![obj] = update(@, namespace_declarations, << >>).scope]
    /\ scope_ops' = scope_ops + 1
    /\ UNCHANGED notScopeVars

\* other = scope.copy()
ScopeCopy(obj, other) ==
    /\ scope_ops < MaxScopeOps
    /\ scopes' = [scopes EXCEPT ![other] = copy(scopes[obj])]
    /\ scope_ops' = scope_ops + 1
    /\ UNCHANGED notScopeVars

ScopeNext ==
    \/ \E obj \in 1..2, prefix \in ScopeKeys, namespace \in ScopeNamespaces :
           ScopeSetItem(obj, prefix, namespace)
    \/ \E obj \in 1..2, namespace_declarations \in ScopeDicts :
           ScopeUpdate(obj, namespace_declarations)
    \/ \E obj \in 1..2 : ScopeCopy(obj, 3 - obj)

(***************************************************************************)
(* LinkRewriter.py.                                                        *)
(*                                                                         *)
(* A node is a record: a text node has a nodeValue, an element a           *)
(* namespaceURI, a localName, its attributes in document order (each with  *)
(* its namespaceURI, localName and value) and its child nodes.  A URL is a *)
(* text.  A criterion is the pair of an element pattern and an attribute   *)
(* pattern, each (namespaceURI, localName) or None, with a mark that tells *)
(* the criteria apart; the callback of the model returns the URL it is     *)
(* given followed by the mark of the criterion it is given.                *)
(***************************************************************************)

NonePattern == << None >>

TextNode(nodeValue) ==
    [nodeType |-> "text", namespaceURI |-> None, localName |-> None,
     attributes |-> << >>, childNodes |-> << >>, nodeValue |-> nodeValue]
ElementNode(namespaceURI, localName, attributes, childNodes) ==
    [nodeType |-> "element", namespaceURI |-> namespaceURI,
     localName |-> localName, attributes |-> attributes,
     childNodes |-> childNodes, nodeValue |-> << >>]

\* sw_util.getChildText
RECURSIVE getChildText(_)
getChildText(childNodes) ==
    IF childNodes = << >> THEN << >>
    ELSE (IF childNodes[1].nodeType = "text" THEN childNodes[1].nodeValue ELSE << >>)
         \o getChildText(Tail(childNodes))

\* sw_util.replaceChildText: the text nodes removed, one appended
replaceChildText(node, text) ==
    [node EXCEPT !.childNodes =
        Append(SelectSeq(@, LAMBDA n : n.nodeType # "text"), TextNode(text))]

\* node.getAttributeNS and node.setAttributeNS on an attribute the node has
getAttributeNS(node, namespaceURI, localName) ==
    node.attributes[CHOOSE i \in 1..Len(node.attributes) :
                        /\ node.attributes[i].namespaceURI = namespaceURI
                        /\ node.attributes[i].localName = localName].value
setAttributeNS(node, namespaceURI, localName, value) ==
    [node EXCEPT !.attributes =
        [i \in 1..Len(@) |->
            IF @[i].namespaceURI = namespaceURI /\ @[i].localName = localName
            THEN [@[i] EXCEPT !.value = value] ELSE @[i]]]

\* match_element: the attributes of the node an attribute pattern matches
RECURSIVE match_attributes(_, _, _)
match_attributes(node, criterion, i) ==
    IF i > Len(node.attributes) THEN << >>
    ELSE (IF \/ /\ criterion.attr[1] # None
                /\ node.attributes[i].namespaceURI # criterion.attr[1]
             \/ node.attributes[i].localName # criterion.attr[2]
          THEN << >>
          ELSE << [m_type |-> "MATCHED_ATTRIBUTE",
                   m_match |-> << node.attributes[i].namespaceURI,
                                  node.attributes[i].localName >>,
                   m_criterion |-> criterion] >>)
         \o match_attributes(node, criterion, i + 1)

\* An element pattern that takes the namespace of the node for nothing
matches_element_AnyNamespace(node, criterion) ==
    \/ criterion.elem = NonePattern
    \/ node.localName = criterion.elem[2]

\* match_element: the test of the element pattern
matches_element(node, criterion) ==
    \/ criterion.elem = NonePattern
    \/ /\ criterion.elem[1] = None \/ node.namespaceURI = criterion.elem[1]
       /\ node.localName = criterion.elem[2]

\* LinkRewriter.match_element: what the generator yields.  The rewriting
\* changes values and text only, which no test of the generator reads
RECURSIVE match_element(_, _)
match_element(node, criteria) ==
    IF criteria = << >> THEN << >>
    ELSE (IF ~matches_element(node, criteria[1]) THEN << >>
          ELSE IF criteria[1].attr = NonePattern
          THEN << [m_type |-> "MATCHED_ELEMENT", m_match |-> << >>,
                   m_criterion |-> criteria[1]] >>
          ELSE match_attributes(node, criteria[1], 1))
         \o match_element(node, Tail(criteria))

\* The callback of the model
callback_func(url, criterion) == Append(url, criterion.mark)

\* rewrite_links: the loop over the matches
RECURSIVE rewrite_matches(_, _, _)
rewrite_matches(node, matches, calls) ==
    IF matches = << >> THEN [node |-> node, calls |-> calls]
    ELSE IF matches[1].m_type = "MATCHED_ELEMENT"
    THEN rewrite_matches(
             replaceChildText(node,
                 callback_func(Strip(getChildText(node.childNodes), " "),
                               matches[1].m_criterion)),
             Tail(matches),
             Append(calls, << Strip(getChildText(node.childNodes), " "),
                              matches[1].m_criterion.mark >>))
    ELSE rewrite_matches(
             setAttributeNS(node, matches[1].m_match[1], matches[1].m_match[2],
                 callback_func(getAttributeNS(node, matches[1].m_match[1],
                                              matches[1].m_match[2]),
                               matches[1].m_criterion)),
             Tail(matches),
             Append(calls, << getAttributeNS(node, matches[1].m_match[1],
                                             matches[1].m_match[2]),
                              matches[1].m_criterion.mark >>))

\* LinkRewriter.rewrite_links on an element, and its walk through the
\* child nodes
RECURSIVE rewrite_links(_, _, _)
RECURSIVE rewrite_children(_, _, _, _)
rewrite_children(node, i, criteria, calls) ==
    IF i > Len(node.childNodes) THEN [node |-> node, calls |-> calls]
    ELSE IF node.childNodes[i].nodeType # "element"
    THEN rewrite_children(node, i + 1, criteria, calls)
    ELSE rewrite_children(
             [node EXCEPT !.childNodes[i] =
                              rewrite_links(node.childNodes[i], criteria, calls).node],
             i + 1, criteria,
             rewrite_links(node.childNodes[i], criteria, calls).calls)

rewrite_links(node, criteria, calls) ==
    rewrite_children(
        rewrite_matches(node, match_element(node, criteria), calls).node,
        1, criteria,
        rewrite_matches(node, match_element(node, criteria), calls).calls)

\* The criteria of the model, after HTML_CRITERIA
Criterion(mark, elem, attr) == [mark |-> mark, elem |-> elem, attr |-> attr]
AnyHref == Criterion("href", NonePattern, << None, "href" >>)
AHref == Criterion("a.href", << None, "a" >>, << None, "href" >>)
XHref == Criterion("x:href", NonePattern, << "X", "href" >>)
QCite == Criterion("q.cite", << None, "q" >>, << None, "cite" >>)
XaText == Criterion("x:a", << "X", "a" >>, NonePattern)
AnyText == Criterion("text", NonePattern, NonePattern)
CriteriaLists ==
    {<< AnyHref >>, << AnyHref, AHref >>, << AHref, AnyHref, XHref >>,
     << QCite, XaText >>, << XaText, AnyText, XaText >>, << >>}

\* The elements of the model
Attr(namespaceURI, localName, value) ==
    [namespaceURI |-> namespaceURI, localName |-> localName, value |-> value]
LrAttributes ==
    {<< >>,
     << Attr(None, "href", << "u" >>) >>,
     << Attr("X", "href", << "v" >>), Attr(None, "href", << "u" >>) >>,
     << Attr(None, "cite", << "c" >>), Attr(None, "id", << "1" >>) >>}
Leaves ==
    {ElementNode(namespaceURI, localName, attributes, << TextNode(<< " ", "t" >>) >>) :
         namespaceURI \in {None, "X"}, localName \in {"a", "q"},
         attributes \in LrAttributes}
TwoLeaves ==
    {ElementNode(None, "a", << Attr(None, "href", << "u" >>) >>, << >>),
     ElementNode("X", "a", << >>, << TextNode(<< "t" >>) >>)}
Mixed(contents) == << TextNode(<< "s" >>) >> \o contents \o << TextNode(<< "e" >>) >>
Documents ==
    {ElementNode(namespaceURI, "a", attributes, childNodes) :
         namespaceURI \in {None, "X"}, attributes \in LrAttributes,
         childNodes \in {<< >>} \cup {Mixed(<< leaf >>) : leaf \in Leaves}
                       \cup {<< first, ElementNode(None, "q", << >>, << second >>) >> :
                                first \in TwoLeaves, second \in TwoLeaves}}

NoDocument == ElementNode(None, None, << >>, << >>)

LrInit ==
    /\ lr_doc \in Documents
    /\ lr_criteria \in CriteriaLists
    /\ lr_before = lr_doc
    /\ lr_calls = << >>
    /\ lr_done = FALSE

LrIdle ==
    /\ lr_doc = NoDocument
    /\ lr_criteria = << >>
    /\ lr_before = NoDocument
    /\ lr_calls = << >>
    /\ lr_done = TRUE

\* LinkRewriter(match_criteria).rewrite_links(node, callback_func)
RewriteLinks ==
    /\ ~lr_done
    /\ lr_doc' = rewrite_links(lr_doc, lr_criteria, << >>).node
    /\ lr_calls' = rewrite_links(lr_doc, lr_criteria, << >>).calls
    /\ lr_done' = TRUE
    /\ UNCHANGED << lr_criteria, lr_before >>
    /\ UNCHANGED notLrVars

LrNext == RewriteLinks

(***************************************************************************)
(* Placeholders.py.                                                        *)
(*                                                                         *)
(* A node of the content tree is a record; an element has a namespaceURI,  *)
(* a localName, child nodes, an id that tells the elements of the          *)
(* original tree apart (0 on every node the pass puts in), and the signal  *)
(* a callback gives when it is invoked on it: it returns, or raises one of *)
(* the four exceptions (TeXPlugin.math_placeholder raises                  *)
(* ReplaceWithNothing on an element without code, ReplaceWithNode          *)
(* otherwise).                                                             *)
(***************************************************************************)

MaxRegistrations == 2
MaxSiblings == 3

PLACEHOLDERS_NAMESPACE == "tag:dlitz.net,2008:StillWeb.Placeholders"
CallbackNames == {"math", "maxima"}
Signals == {"return", "ReplaceWithNothing", "ReplaceWithText",
            "ReplaceWithNode", "ReplaceWithHTML"}

PhNode(nodeType, namespaceURI, localName, id, signal, childNodes) ==
    [nodeType |-> nodeType, namespaceURI |-> namespaceURI, localName |-> localName,
     id |-> id, signal |-> signal, childNodes |-> childNodes]
PhText == PhNode("text", None, None, 0, "return", << >>)
PhElement(namespaceURI, localName, id, signal, childNodes) ==
    PhNode("element", namespaceURI, localName, id, signal, childNodes)

NoCallbacks == [k \in {} |-> None]

\* PlaceholdersPlugin.register_callback: its outcome and the registries
\* after it
register_callback(callback, element_namespaceURI, element_localName) ==
    IF element_localName # None
    THEN IF << element_namespaceURI, element_localName >> \in DOMAIN element_callbacks
         THEN [error |-> "ValueError", element_callbacks |-> element_callbacks,
               namespace_callbacks |-> namespace_callbacks]
         ELSE [error |-> "none",
               element_callbacks |->
                   Put(element_callbacks,
                       << element_namespaceURI, element_localName >>, callback),
               namespace_callbacks |-> namespace_callbacks]
    ELSE IF element_namespaceURI \in DOMAIN namespace_callbacks
         THEN [error |-> "ValueError", element_callbacks |-> element_callbacks,
               namespace_callbacks |-> namespace_callbacks]
         \* self._namespace_callbacks[namespaceURI] = namespaceURI: no such name
         ELSE [error |-> "NameError", element_callbacks |-> element_callbacks,
               namespace_callbacks |-> namespace_callbacks]

\* __invoke_callback: the nodes that stand in the parent where the element
\* stood, after the callback gave the signal of the element
invoke_callback(element) ==
    CASE element.signal = "return" -> << element >>
      [] element.signal = "ReplaceWithNothing" -> << >>
      [] element.signal = "ReplaceWithText" -> << PhText >>
      [] element.signal = "ReplaceWithNode" ->
             << PhElement(None, "img", 0, "return", << >>) >>
      [] element.signal = "ReplaceWithHTML" ->
             << PhElement(None, "b", 0, "return", << PhText >>),
                PhElement(None, "i", 0, "return", << PhText >>) >>

\* In __recurse_placeholders, the callback found for an element, or None
callback_of(element) ==
    IF << element.namespaceURI, element.localName >> \in DOMAIN element_callbacks
    THEN element_callbacks[<< element.namespaceURI, element.localName >>]
    ELSE IF element.namespaceURI \in DOMAIN namespace_callbacks
    THEN namespace_callbacks[element.namespaceURI]
    ELSE None

\* __recurse_placeholders on an element: the nodes that stand where it
\* stood and the calls made.  The loop over element.childNodes goes by
\* position through the list the callbacks change: i is the position of the
\* iterator
RECURSIVE recurse_placeholders(_, _)
RECURSIVE recurse_children(_, _, _)
recurse_children(element, i, calls) ==
    IF i > Len(element.childNodes)
    THEN [nodes |-> << element >>, calls |-> calls]
    ELSE IF element.childNodes[i].nodeType # "element"
    THEN recurse_children(element, i + 1, calls)
    ELSE recurse_children(
             [element EXCEPT !.childNodes =
                 SubSeq(@, 1, i - 1)
                 \o recurse_placeholders(@[i], calls).nodes
                 \o SubSeq(@, i + 1, Len(@))],
             i + 1,
             recurse_placeholders(element.childNodes[i], calls).calls)

recurse_placeholders(element, calls) ==
    IF callback_of(element) # None
    THEN [nodes |-> invoke_callback(element),
          calls |-> Append(calls, << callback_of(element), element.id >>)]
    ELSE recurse_children(element, 1, calls)

\* The content trees of the model: a root no callback is for, and under it
\* placeholders with each signal, text, and a div with two placeholders
ChildKinds == Signals \cup {"text", "div", "other"}
Child(kind, i) ==
    CASE kind = "text" -> PhText
      [] kind = "div" ->
             PhElement(None, "div", i, "return",
                 << PhElement(PLACEHOLDERS_NAMESPACE, "math", 10 * i + 1,
                              "ReplaceWithNothing", << >>),
                    PhElement(PLACEHOLDERS_NAMESPACE, "math", 10 * i + 2,
                              "ReplaceWithNode", << >>) >>)
      [] kind = "other" ->
             PhElement(PLACEHOLDERS_NAMESPACE, "note", i, "ReplaceWithText", << >>)
      [] OTHER -> PhElement(PLACEHOLDERS_NAMESPACE, "math", i, kind, << >>)
ContentsOf(n) ==
    {PhElement(None, "r", 100, "return", [i \in 1..n |-> Child(kinds[i], i)]) :
         kinds \in [1..n -> ChildKinds]}
Contents == UNION {ContentsOf(n) : n \in 0..MaxSiblings}

NoContent == PhElement(None, None, 0, "return", << >>)

PhInit ==
    /\ element_callbacks = NoCallbacks
    /\ namespace_callbacks = NoCallbacks
    /\ ph_error = "none"
    /\ ph_registrations = 0
    /\ ph_content \in Contents
    /\ ph_before = ph_content
    /\ ph_calls = << >>
    /\ ph_done = FALSE

PhIdle ==
    /\ element_callbacks = NoCallbacks
    /\ namespace_callbacks = NoCallbacks
    /\ ph_error = "none"
    /\ ph_registrations = MaxRegistrations
    /\ ph_content = NoContent
    /\ ph_before = NoContent
    /\ ph_calls = << >>
    /\ ph_done = TRUE

\* A plugin registers a callback
RegisterCallback(callback, element_namespaceURI, element_localName) ==
    /\ ~ph_done
    /\ ph_registrations < MaxRegistrations
    /\ ph_registrations' = ph_registrations + 1
    /\ ph_error' =
           register_callback(callback, element_namespaceURI, element_localName).error
    /\ element_callbacks' =
           register_callback(callback, element_namespaceURI,
                             element_localName).element_callbacks
    /\ namespace_callbacks' =
           register_callback(callback, element_namespaceURI,
                             element_localName).namespace_callbacks
    /\ UNCHANGED << ph_content, ph_before, ph_calls, ph_done >>
    /\ UNCHANGED notPhVars

\* The load_content:after filter: _process_placeholders
ProcessPlaceholders ==
    /\ ~ph_done
    /\ ph_content' = recurse_placeholders(ph_content, << >>).nodes[1]
    /\ ph_calls' = recurse_placeholders(ph_content, << >>).calls
    /\ ph_done' = TRUE
    /\ UNCHANGED << element_callbacks, namespace_callbacks, ph_error,
                    ph_registrations, ph_before >>
    /\ UNCHANGED notPhVars

PhNext ==
    \/ \E callback \in CallbackNames, element_localName \in {None, "math", "note"} :
          RegisterCallback(callback, PLACEHOLDERS_NAMESPACE, element_localName)
    \/ ProcessPlaceholders

(***************************************************************************)
(* MyFilters.py, _filter_copy_head.  A child node of a head is the name of *)
(* its element, or "#text".                                                *)
(***************************************************************************)

MaxHeadNodes == 3

HeadNodeNames == {"meta", "link", "style", "#text"}
TemplateHead == << "title", "meta" >>

\* getChildElementsNS(tmpHeadElement, EMPTY_NAMESPACE, 'title')
title_elements(childNodes) == SelectSeq(childNodes, LAMBDA n : n = "title")

\* n.parentNode.removeChild(n) for the title
remove_title(childNodes) == SelectSeq(childNodes, LAMBDA n : n # "title")

\* pg.invoke_filters('generate_page:filter_head', tmpHeadElement), with
\* filters that remove the nodes of some names
invoke_filters(childNodes, filtered) ==
    SelectSeq(childNodes, LAMBDA n : n \notin filtered)

\* for n in tmpHeadElement.childNodes: destHeadElement.appendChild(n).
\* appendChild takes the node out of tmpHeadElement.childNodes, the list
\* the loop goes through by position; i is the position of the iterator
RECURSIVE copy_nodes(_, _, _)
copy_nodes(tmp, dest, i) ==
    IF i > Len(tmp) THEN [tmp |-> tmp, dest |-> dest]
    ELSE copy_nodes(RemoveAt(tmp, i), Append(dest, tmp[i]), i + 1)

\* The heads of the model: up to MaxHeadNodes nodes, and a title at any
\* place among them or none
HeadsOf(n) ==
    {[i \in 1..n + 1 |-> IF i < at THEN nodes[i]
                         ELSE IF i = at THEN "title" ELSE nodes[i - 1]] :
         nodes \in [1..n -> HeadNodeNames], at \in 1..n + 1}
    \cup [1..n -> HeadNodeNames]
Heads == UNION {HeadsOf(n) : n \in 0..MaxHeadNodes}

HeadInit ==
    /\ head_src \in Heads
    /\ head_filtered \in {{}, {"style"}}
    /\ head_tmp = << >>
    /\ head_dest = TemplateHead
    /\ head_error = "none"
    /\ head_done = FALSE

HeadIdle ==
    /\ head_src = << >>
    /\ head_filtered = {}
    /\ head_tmp = << >>
    /\ head_dest = << >>
    /\ head_error = "none"
    /\ head_done = TRUE

\* _filter_copy_head(pg)
FilterCopyHead ==
    /\ ~head_done
    /\ head_done' = TRUE
    /\ IF Len(title_elements(head_src)) # 1
       THEN /\ head_error' = "ValueError"
            /\ head_tmp' = head_src
            /\ UNCHANGED head_dest
       ELSE /\ head_error' = "none"
            /\ head_tmp' = copy_nodes(invoke_filters(remove_title(head_src),
                                                     head_filtered),
                                      head_dest, 1).tmp
            /\ head_dest' = copy_nodes(invoke_filters(remove_title(head_src),
                                                      head_filtered),
                                       head_dest, 1).dest
    /\ UNCHANGED << head_src, head_filtered >>
    /\ UNCHANGED notHeadVars

HeadNext == FilterCopyHead
(***************************************************************************)
(* Claims about the URL algebra                                            *)
(***************************************************************************)

\* C1: with base http://a/b/c/d;p?q, rfc3986_urljoin(base, ref) is the
\* expected URL of the RFC 3986 section 5.4.1 and 5.4.2 tables for every
\* reference of the tables.
C1_Rfc3986Examples ==
    (u_op = "rfc3986_urljoin" /\ u_base = RFC3986_BASE) =>
        \A i \in 1..Len(AllTests) :
            AllTests[i][1] = u_url => u_result = AllTests[i][2]

\* C1 witness: the abnormal example ../../../g has been joined and gave
\* http://a/g.
C1_Witness ==
    /\ u_op = "rfc3986_urljoin"
    /\ u_url = RFC3986_abnormal_tests[1][1]
    /\ u_result = RFC3986_abnormal_tests[1][2]

\* C2 (as claimed): for a target and a base that share scheme and authority,
\* resolving relative_url(target, base) against base gives the URL that
\* resolving target against base gives.
C2_RelativizeRoundTrip ==
    u_op = "relative_url" =>
        rfc3986_urljoin(u_base, u_result) = rfc3986_urljoin(u_base, u_url)

\* The site URL of a root-relative path: base_url + path without its "/"
SiteUrl(base_url, path) == base_url \o Tail(path)

\* C7 (as claimed): the rewritten link is the relative reference from the
\* page (base_url + target) to the link under the site root (base_url + p):
\* resolved at the page it gives that URL.
C7_RewriteSiteRoot ==
    u_op = "rewrite_links" =>
        rfc3986_urljoin(SiteUrl(u_base, u_target), u_result) = SiteUrl(u_base, u_url)

(***************************************************************************)
(* Claims about the tag-soup parser                                        *)
(***************************************************************************)

Unbalanced == << "unbalanced" >>

\* The index of the atom that ends the start tag at the head of the markup
TagEnd(markup) ==
    CHOOSE j \in 1..Len(markup) :
        /\ markup[j] \in {">", " />"}
        /\ \A k \in 1..(j - 1) : markup[k] \notin {">", " />"}

\* The elements left open by a piece of markup read with the elements of
\* open already open (innermost last), or Unbalanced when a close tag does
\* not name the innermost open element
RECURSIVE OpenAfter(_, _)
OpenAfter(markup, open) ==
    IF markup = << >> THEN open
    ELSE IF markup[1] = "<"
    THEN OpenAfter(From(markup, TagEnd(markup) + 1),
                   IF markup[TagEnd(markup)] = ">"
                   THEN Append(open, markup[2]) ELSE open)
    ELSE IF markup[1] = "</"
    THEN IF open # << >> /\ Last(open) = markup[2]
         THEN OpenAfter(From(markup, 4), SubSeq(open, 1, Len(open) - 1))
         ELSE Unbalanced
    ELSE IF markup[1] = "<!--"
    THEN OpenAfter(From(markup, Find(markup, "-->", 1) + 1), open)
    ELSE OpenAfter(Tail(markup), open)

\* The elements of the two outer levels of a piece of markup, in document
\* order, each with its depth
RECURSIVE Outline(_, _)
Outline(markup, depth) ==
    IF markup = << >> THEN << >>
    ELSE IF markup[1] = "<"
    THEN (IF depth <= 1 THEN << << depth, markup[2] >> >> ELSE << >>)
         \o Outline(From(markup, TagEnd(markup) + 1),
                    IF markup[TagEnd(markup)] = ">" THEN depth + 1 ELSE depth)
    ELSE IF markup[1] = "</"
    THEN Outline(From(markup, 4), depth - 1)
    ELSE IF markup[1] = "<!--"
    THEN Outline(From(markup, Find(markup, "-->", 1) + 1), depth)
    ELSE Outline(Tail(markup), depth)

\* One html root holding one head followed by one body
OneRoot == << << 0, "html" >>, << 1, "head" >>, << 1, "body" >> >>

\* The pieces of a content list, none for None
Pieces(content) == IF content = NoneList THEN << >> ELSE content

\* Every close tag emitted so far names the innermost open element, and the
\* elements left open are those of the stack
EmittedBalanced ==
    OpenAfter(Concat(Pieces(head_content) \o Pieces(body_content)), << >>)
        = tagstack

\* Once the body has begun the head content is balanced on its own, and so
\* is the body content up to the elements of the stack
HeadAndBodyBalanced ==
    body_content # NoneList =>
        /\ OpenAfter(Concat(Pieces(head_content)), << >>) = << >>
        /\ OpenAfter(Concat(body_content), << >>) = tagstack

\* After close() no element is open
ClosedEmpty == closed => tagstack = << >>

\* C3 (as claimed): for any sequence of tokens the emitted markup is
\* balanced (every close tag names the innermost open element, head and
\* body content are balanced on their own, after close() the stack is empty)
\* and the document toxml() returns is balanced with exactly one html root
\* holding one head followed by one body.
C3_BalancedOneRoot ==
    /\ EmittedBalanced
    /\ HeadAndBodyBalanced
    /\ ClosedEmpty
    /\ xml # NotCalled =>
           /\ OpenAfter(xml, << >>) = << >>
           /\ Outline(xml, 0) = OneRoot

\* C4 (as claimed): close() followed by toxml() raises no error and returns
\* a document with the html, head and body wrappers, whatever the tokens
\* were.
C4_NeverFails ==
    xml # NotCalled =>
        /\ xml # TypeError
        /\ StartsWith(xml, html_tag \o head_tag)
        /\ Contains(xml, "</")
        /\ Outline(xml, 0) = OneRoot

(***************************************************************************)
(* Claims about the namespace normalizer                                   *)
(***************************************************************************)

\* The xmlns attributes of an element that declare a prefix (None for the
\* default namespace)
DeclarationsOf(element, prefix) ==
    SelectSeq(element.attributes,
              LAMBDA attrNode :
                  /\ attrNode.namespaceURI = XMLNS_NAMESPACE
                  /\ IF prefix = None
                     THEN attrNode.prefix = None /\ attrNode.localName = "xmlns"
                     ELSE attrNode.prefix = "xmlns" /\ attrNode.localName = prefix)

\* The namespace the declarations in scope at element i bind a prefix to:
\* the nearest declaration on the element or its ancestors; with none, no
\* namespace for the default and "unbound" for a prefix
RECURSIVE InScopeBinding(_, _, _)
InScopeBinding(tree, i, prefix) ==
    IF i = 0 THEN (IF prefix = None THEN EMPTY_NAMESPACE ELSE "unbound")
    ELSE IF DeclarationsOf(tree[i], prefix) # << >>
    THEN (IF Last(DeclarationsOf(tree[i], prefix)).nodeValue \in {"", None}
          THEN EMPTY_NAMESPACE
          ELSE Last(DeclarationsOf(tree[i], prefix)).nodeValue)
    ELSE InScopeBinding(tree, i - 1, prefix)

\* The prefix of element i and of its attributes in a namespace are bound,
\* in scope, to their namespaces
BoundInScope(tree, i) ==
    /\ InScopeBinding(tree, i, tree[i].prefix) = tree[i].namespaceURI
    /\ \A k \in 1..Len(tree[i].attributes) :
           LET attrNode == tree[i].attributes[k]
           IN  attrNode.namespaceURI \notin {XMLNS_NAMESPACE, EMPTY_NAMESPACE} =>
                   InScopeBinding(tree, i, attrNode.prefix) = attrNode.namespaceURI

\* C5: after normalize_namespaces has returned, for every element of the
\* subtree it was called on the declarations in scope bind the element's
\* prefix to its namespace URI and the prefix of each of its attributes in
\* a namespace (other than xmlns and no namespace) to that namespace URI.
C5_InScopeBindings ==
    (ns_calls # << >> /\ ns_error = "none") =>
        \A i \in Last(ns_calls)..Len(dom) : BoundInScope(dom, i)

\* C5 witness: normalize_namespaces(root) has returned on a document in
\* which the prefix of some element was not bound to its namespace, and
\* has changed the document.
C5_Witness ==
    /\ ns_calls = << 1 >>
    /\ ns_error = "none"
    /\ dom # dom_before
    /\ \E i \in 1..Len(dom_before) : ~BoundInScope(dom_before, i)
    /\ \A i \in 1..Len(dom) : BoundInScope(dom, i)

\* C6 (as claimed): when a first run has succeeded, a second run on the same
\* element with the same strip_dups succeeds and changes nothing.
C6_Idempotent ==
    (Len(ns_calls) = 2 /\ ns_calls[1] = ns_calls[2]) =>
        (ns_error = "none" /\ dom = dom_before)

(***************************************************************************)
(* Claims about the build                                                  *)
(***************************************************************************)

\* C8 (as claimed): in every reachable state the output path of a target
\* that has had a complete output holds a complete output (the prior one or
\* the new one), never a missing or a partially written file.
C8_AtomicReplace ==
    \A t \in had_output : fs[output_filename(t)].state = "complete"

\* C9 (as claimed): when a run of the script has completed successfully,
\* the next run of the same script, with no source changed, skips every
\* make and make_atom_feed command and enters no stage that builds.
C9_SecondRunSkips ==
    (run >= 2 /\ history[run - 1] = "ok") =>
        /\ pc \in {"stopped", "next"}
        /\ \A i \in 1..Len(outcomes) : outcomes[i] \in {"pending", "skipped", "done"}

(***************************************************************************)
(* Claims about the TeX cache                                              *)
(***************************************************************************)

\* The cache key of a piece of code: its canonical md5
KeyOf(code) == hash_code(code)

\* The calls of run_texvc made for a key
RendersOf(key) == {n \in 1..Len(texvc_runs) : KeyOf(texvc_runs[n]) = key}

\* The finished calls of math_placeholder for a key
CallsOf(key) == {n \in 1..Len(tex_calls) : KeyOf(tex_calls[n].latex_code) = key}

\* C10: when the first call of math_placeholder for a key has returned a
\* result, it was a miss that ran run_texvc, run_texvc has run exactly once
\* for that key, and every later call for the key that returns a result is
\* a cache hit (the stamp and the image exist) with the same result; a code
\* with another canonical md5 has its own key and its own run of run_texvc.
C10_RenderOnce ==
    \A n \in 1..Len(tex_calls) :
        (/\ tex_calls[n].outcome = "result"
         /\ \A m \in 1..(n - 1) :
                KeyOf(tex_calls[m].latex_code) # KeyOf(tex_calls[n].latex_code)) =>
            LET key == KeyOf(tex_calls[n].latex_code)
            IN  /\ ~tex_calls[n].hit
                /\ Cardinality(RendersOf(key)) = 1
                /\ key \in stamps /\ key \in pngs
                /\ \A m \in CallsOf(key) :
                       (m > n /\ tex_calls[m].outcome = "result") =>
                           /\ tex_calls[m].hit
                           /\ tex_calls[m].result = tex_calls[n].result

\* C10 witness: two calls with the same code have returned, the first a
\* miss and the second a hit with the same result, after one run of
\* run_texvc.
C10_Witness ==
    /\ Len(tex_calls) = 2
    /\ tex_calls[1].latex_code = << "x" >>
    /\ tex_calls[2].latex_code = << "x" >>
    /\ tex_calls[1].outcome = "result" /\ ~tex_calls[1].hit
    /\ tex_calls[2].outcome = "result" /\ tex_calls[2].hit
    /\ tex_calls[2].result = tex_calls[1].result
    /\ texvc_runs = << << "x" >> >>

(***************************************************************************)
(* Further claims about the URL algebra                                    *)
(***************************************************************************)

\* The form of t relative to src, and whether t lies under src: that form
\* has no scheme, no authority and does not start with "../"
RelativeForm(t, src) == relative_url(t, src, FALSE, FALSE)
LiesUnder(t, src) ==
    /\ urlparse(RelativeForm(t, src), << >>).scheme = << >>
    /\ urlparse(RelativeForm(t, src), << >>).netloc = << >>
    /\ ~StartsWith(urlparse(RelativeForm(t, src), << >>).path, << ".", ".", "/" >>)

\* What the claim says rebase_url gives for the resolved URL t
Rebased(t, src, dest, must_rebase) ==
    IF LiesUnder(t, src) THEN rfc3986_urljoin(dest, RelativeForm(t, src))
    ELSE IF must_rebase THEN ValueError
    ELSE t

\* C17: rebase_url(url, src, dest, must_rebase), with t the URL resolved
\* against src, returns the form of t relative to src resolved against dest
\* when t lies under src; otherwise it returns t when must_rebase is false
\* and raises an error when must_rebase is true.
C17_Rebase ==
    u_op = "rebase_url" =>
        u_result = Rebased(rfc3986_urljoin(u_base, u_url), u_base, u_target,
                           "must_rebase" \in u_flags)

\* C17 witness: /b is not under http://h/a/ and must_rebase is set: the
\* call has raised.
C17_Witness ==
    /\ u_op = "rebase_url"
    /\ u_url = << "/", "b" >>
    /\ u_base = HostH \o << "/", "a", "/" >>
    /\ u_flags = {"must_rebase"}
    /\ ~LiesUnder(rfc3986_urljoin(u_base, u_url), u_base)
    /\ u_result = ValueError

\* The segments of the path of a URL
PathSegments(url) == Split(urlparse(url, << >>).path, "/")

\* No "." or ".." segment, and no empty segment but the first or the last
CleanSegments(segments) ==
    \A i \in 1..Len(segments) :
        /\ segments[i] \notin {<< "." >>, << ".", "." >>}
        /\ segments[i] = << >> => i \in {1, Len(segments)}

BasenameOrDot(url) ==
    IF Last(PathSegments(url)) = << >> THEN << ".", "/" >>
    ELSE Last(PathSegments(url))

\* What the claim says of the reference relative_url returns for the
\* resolved target t
SafeReference(t, base_url, reference, allow_empty, allow_net) ==
    /\ ~allow_empty => reference # << >>
    /\ ~allow_net => ~StartsWith(reference, << "/", "/" >>)
    /\ (~allow_empty /\ t = base_url) => reference = BasenameOrDot(t)
    /\ urlparse(t, << >>).scheme # urlparse(base_url, << >>).scheme =>
           reference = t
    /\ (~allow_net /\ urlparse(t, << >>).netloc # urlparse(base_url, << >>).netloc) =>
           reference = t

\* C19: relative_url returns no zero-length reference unless allow_empty is
\* set ("./" or the basename when target and base coincide), no
\* network-path reference unless allow_net is set, and the absolute target
\* when the scheme differs or, without allow_net, the authority differs.
C19_SafeReference ==
    u_op = "relative_url(kw)" =>
        SafeReference(rfc3986_urljoin(u_base, u_url), u_base, u_result,
                      "allow_empty" \in u_flags, "allow_net" \in u_flags)

\* C19 witness: the target is the base, a directory, and no keyword
\* argument is set: the reference is "./".
C19_Witness ==
    /\ u_op = "relative_url(kw)"
    /\ u_flags = {}
    /\ u_url = u_base
    /\ u_base = HostH \o << "/", "a", "/" >>
    /\ u_result = << ".", "/" >>

(***************************************************************************)
(* Further claims about the tag-soup parser                                *)
(***************************************************************************)

\* The parents the claim allows for the elements that must have one
AllowedParents ==
    [li |-> {"ul", "ol"},
     td |-> {"tr", "table"},
     th |-> {"tr", "table"},
     tr |-> {"table", "tbody", "thead", "tfoot"},
     dd |-> {"dl"},
     dt |-> {"dl"}]

\* The stack the claim gives after the start tag: cut above the nearest
\* open element of an allowed type, when there is one, and the new element
\* on top
Repaired(stack, tagname) ==
    LET cut(hits) == IF hits = {} THEN stack ELSE SubSeq(stack, 1, Final(hits))
    IN  Append(cut({i \in 1..Len(stack) : stack[i] \in AllowedParents[tagname]}),
               tagname)

\* C20 (as claimed): when the start tag of li, td, th, tr, dd or dt arrives,
\* every element above the nearest open element of an allowed parent type
\* is closed and the new element opens as its child; with no such element
\* open the stack is left as it is and the element opens on top.
C20_MandatoryParents ==
    [][\A tagname \in TagNames, attributes \in AttrLists :
           (StartTag(tagname, attributes) /\ lower(tagname) \in DOMAIN AllowedParents)
               => tagstack' = Repaired(tagstack, lower(tagname))]_vars

\* The stages of handle_make in the order of its code, write_output in the
\* steps of its body
StageOrder ==
    << "next", "init_page", "load_content", "generate_page", "generate_output",
       "write_output", "open", "write", "close", "write_output:after" >>
StageRank(step) == CHOOSE i \in 1..Len(StageOrder) : StageOrder[i] = step
WriteSteps == {"write_output", "open", "write", "close"}
InMake == pc # "stopped" /\ cmd <= Len(script) /\ Command.cmd = "make"

\* One step of a make command: the next stage in order, or the skip right
\* after the check, or the end after the last stage, or the failure
MakeStepInOrder ==
    \/ pc' = pc /\ cmd' = cmd /\ outcomes' = outcomes
    \/ pc' = "stopped" /\ cmd' = cmd /\ outcomes' = outcomes
                       /\ history' = Append(history, "failed")
    \/ /\ pc # "write_output:after"
       /\ pc' = StageOrder[StageRank(pc) + 1]
       /\ cmd' = cmd /\ outcomes' = outcomes
    \/ /\ pc = "next"
       /\ pc' = "next" /\ cmd' = cmd + 1
       /\ outcomes' = [outcomes EXCEPT ![cmd] = "skipped"]
    \/ /\ pc = "write_output:after"
       /\ pc' = "next" /\ cmd' = cmd + 1
       /\ outcomes' = [outcomes EXCEPT ![cmd] = "made"]

\* C11: handle_make runs its stages strictly in the order check_freshness,
\* init_page, load_content, generate_page, generate_output, write_output, a
\* stage running only when the one before it has finished without an error;
\* the command is skipped only directly after the freshness check, and the
\* output file of a page is touched only by the write_output of its own make
C11_StagesInOrder ==
    [][/\ InMake => MakeStepInOrder
       /\ \A t \in Pages :
             fs'[output_filename(t)] # fs[output_filename(t)]
                => InMake /\ pc \in WriteSteps /\ current_target_url = t]_vars

\* One run has made its first page through all the stages and skipped the
\* second one
C11_Witness ==
    /\ Len(script) = 2 /\ script[1].cmd = "make" /\ script[2].cmd = "make"
    /\ run = 1
    /\ outcomes = << "made", "skipped" >>

\* The larger of two times
Newer(a, b) == IF a >= b THEN a ELSE b

\* A check_freshness filter of a registered plugin raises NeedsUpdate
ExtensionSignals(target) ==
    \/ "FeedGenerator" \in plugins /\ FG_NeedsUpdate(target)
    \/ "NewsPlugin" \in plugins /\ NP_NeedsUpdate(target)

\* The output is missing, or strictly older than the newer of the template
\* and the source, or an extension asks for the update
StaleTarget(target) ==
    \/ fs[output_filename(target)].state = "absent"
    \/ fs[output_filename(target)].mtime
          < Newer(template_mtime, source_mtime[target])
    \/ ExtensionSignals(target)

\* C16: check_freshness reports a target stale exactly when its output is
\* missing, or the output is strictly older than the newer of the template and
\* the source, or a registered extension signals NeedsUpdate; a missing output
\* is always stale, and an output as old as its newest input is fresh
C16_StaleExactly ==
    [][check_freshness =>
          /\ (pc' = "init_page") <=> StaleTarget(current_target_url)
          /\ (pc' # "init_page") <=> (pc' = "next" /\ outcomes'[cmd] = "skipped")
          /\ ~exists(output_filename(current_target_url)) => pc' = "init_page"]_vars

\* A page made by the first run at the very time of its newest input, the
\* template, has been skipped by the second run
C16_Witness ==
    /\ script # << >> /\ script[1].cmd = "make"
    /\ run = 2
    /\ outcomes[1] = "skipped"
    /\ exists(output_filename(script[1].target))
    /\ template_mtime > source_mtime[script[1].target]
    /\ fs[output_filename(script[1].target)].mtime = template_mtime

\* C12: the staleness check with its registered extensions changes no
\* persistent state: no file and no directory is created, modified or removed;
\* and a target judged fresh is skipped with no further stage, the filesystem
\* left as it was before the command
C12_CheckIsPureRead ==
    [][check_freshness =>
          /\ fs' = fs /\ data_dir' = data_dir
          /\ ~NeedsUpdate(current_target_url) => pc' = "next" /\ cmd' = cmd + 1]_vars

\* C13: a target whose pipeline failed or was stopped, even midway through
\* the writing of its output file, is rebuilt and not skipped by the next run
\* over the same sources, so that a completed run leaves every page it makes
\* with a complete output
C13_RerunRebuilds ==
    /\ \A i \in 1..Len(outcomes) :
          (pc # "stopped" /\ script[i].cmd = "make" /\ outcomes[i] = "skipped")
             => fs[output_filename(script[i].target)].state = "complete"
    /\ (pc = "stopped" /\ history # << >> /\ Last(history) = "ok")
          => \A i \in 1..Len(script) :
                script[i].cmd = "make"
                   => fs[output_filename(script[i].target)].state = "complete"

\* The result file of the key holds a whole result that carries the key
Persisted(key) ==
    /\ DictHas(results, key)
    /\ DictGet(results, key).error = "none"
    /\ DictGet(results, key).md5 = key

CorruptHit ==
    /\ cache_hit(canonical_md5)
    /\ DictHas(results, canonical_md5)
    /\ DictGet(results, canonical_md5).md5 # canonical_md5

\* The call ends in an error on the hit, and texvc has not run
FailsWithoutRendering ==
    /\ tex_pc' = "idle"
    /\ Last(tex_calls').outcome = "error" /\ Last(tex_calls').hit
    /\ texvc_runs' = texvc_runs

\* C15: a cache hit whose stored result carries a hash different from its key
\* is a fatal error and no soft miss: math_placeholder fails without invoking
\* the renderer and without creating, modifying or deleting any cache file
C15_CorruptHitIsFatal ==
    [][(lookup /\ CorruptHit) =>
          /\ FailsWithoutRendering
          /\ CacheFiles' = files_at_call]_vars

\* C15, amended: the call fails without invoking the renderer and without
\* creating, modifying or deleting any result, stamp or image file; the only
\* cache file it may have written, before it looked into the cache, is the
\* original-sum file of a code it had no sum of
C15_CorruptHitIsFatal_Amended ==
    [][(lookup /\ CorruptHit) =>
          /\ FailsWithoutRendering
          /\ << results', stamps', pngs' >>
                = << files_at_call[2], files_at_call[3], files_at_call[4] >>
          /\ \/ orig_sums' = files_at_call[1]
             \/ /\ ~DictHas(files_at_call[1], md5(latex_code))
                /\ orig_sums' = DictSet(files_at_call[1], md5(latex_code),
                                        canonical_md5)]_vars

\* The call of {x} has failed on the damaged result of x, after it wrote the
\* original-sum file of {x}
C15_Witness ==
    /\ tex_pc = "idle"
    /\ Len(tex_calls) = 2
    /\ Last(tex_calls).outcome = "error" /\ Last(tex_calls).hit
    /\ latex_code = << "{", "x", "}" >>
    /\ CorruptHit
    /\ Len(texvc_runs) = 1
    /\ orig_sums # files_at_call[1]
    /\ << results, stamps, pngs >>
          = << files_at_call[2], files_at_call[3], files_at_call[4] >>

\* C21: a start tag of a forbidden-parents element (p, option, colgroup)
\* force-closes the open instance of that element first, so that after any
\* sequence of tokens the stack of open elements never holds two instances of
\* the same forbidden-parents element
C21_NoSelfNesting ==
    \A i, j \in 1..Len(tagstack) :
        (i < j /\ tagstack[i] = tagstack[j])
            => tagstack[i] \notin forbidden_parents

\* The pieces of output emitted so far, those of the head before those of
\* the body
Emitted == Pieces(head_content) \o Pieces(body_content)

\* The topmost open instance of an element that is on the stack
TopmostInstance(stack, tagname) ==
    CHOOSE i \in 1..Len(stack) :
        stack[i] = tagname /\ \A j \in (i + 1)..Len(stack) : stack[j] # tagname

\* The close tags of the elements of the stack from the top down to an index
CloseTagsDownTo(stack, index) ==
    [k \in 1..(Len(stack) - index + 1) |-> << "</", stack[Len(stack) - k + 1], ">" >>]

\* C22: an end tag of an element other than html, head and body that is
\* open closes, last opened first, every element opened after the topmost
\* open instance of that element and then that instance, and leaves every
\* element below it open; an end tag of an element that is not on the stack
\* emits nothing and leaves the stack and all the output unchanged
C22_EndTagRule ==
    [][\A tagname \in TagNames :
          (EndTag(tagname) /\ lower(tagname) \notin {"html", "head", "body"})
             => IF Contains(tagstack, lower(tagname))
                THEN /\ tagstack' = SubSeq(tagstack, 1,
                                       TopmostInstance(tagstack, lower(tagname)) - 1)
                     /\ Emitted' = Emitted \o CloseTagsDownTo(tagstack,
                                       TopmostInstance(tagstack, lower(tagname)))
                     /\ body_content = NoneList <=> body_content' = NoneList
                     /\ UNCHANGED << output_buffer, html_tag, head_tag, body_tag >>
                ELSE UNCHANGED << tagstack, output_buffer, html_tag, head_tag,
                                  head_content, body_tag, body_content >>]_vars

\* The end tag of ul has closed the li opened after the ul, and then the ul
C22_Witness ==
    /\ fed = 3
    /\ tagstack = << >>
    /\ Emitted = << << "<", "ul" >>, << ">" >>, << "<", "li" >>, << ">" >>,
                    << "</", "li", ">" >>, << "</", "ul", ">" >> >>

\* C23: the output produced before the first body start tag goes to the
\* head content; the body start tag closes every open element in the head
\* content, and from then on nothing is appended to the head content; when no
\* body start tag was seen, the finish makes all the accumulated content the
\* body content and leaves the head content empty
C23_HeadBodyPartition ==
    [][/\ (body_tag' = NoneStr /\ ~closed') => body_content' = NoneList
       /\ (body_tag = NoneStr /\ body_tag' # NoneStr /\ ~closed')
             => /\ tagstack' = << >>
                /\ Pieces(head_content')
                      = Pieces(head_content) \o CloseTagsDownTo(tagstack, 1)
                /\ body_content' = << >>
       /\ body_tag # NoneStr => head_content' = head_content
       /\ (body_tag = NoneStr /\ ~closed /\ closed')
             => /\ head_content' = << >>
                /\ Pieces(body_content')
                      = Pieces(head_content) \o CloseTagsDownTo(tagstack, 1)]_vars

\* The body start tag has closed the open p in the head content, and the
\* text after it is in the body content
C23_Witness ==
    /\ fed = 3 /\ ~closed
    /\ body_tag = << "<", "body", ">" >>
    /\ head_content = << << "<", "p" >>, << ">" >>, << "</", "p", ">" >> >>
    /\ body_content = << << "x", "&amp;" >> >>

\* The prefixes a document of the model binds
ScopePrefixes == {"p", "q", "NS1", "NS2", "NS3"}

\* No declaration of the tree is illegal and no element has a prefix with no
\* namespace: normalize_namespaces has no ValueError to raise
LegalTree(tree) ==
    \A i \in 1..Len(tree) :
        /\ ~(tree[i].namespaceURI = EMPTY_NAMESPACE /\ tree[i].prefix # None)
        /\ \A k \in 1..Len(tree[i].attributes) :
               (tree[i].attributes[k].namespaceURI = XMLNS_NAMESPACE
                /\ tree[i].attributes[k].prefix = "xmlns")
                  => tree[i].attributes[k].nodeValue \notin {"", None, XMLNS_NAMESPACE}

\* Attribute k of element i is in a real namespace, its own prefix is not
\* bound to that namespace in scope, and another prefix in scope is
NeedsRebinding(tree, i, k) ==
    /\ tree[i].attributes[k].namespaceURI \notin {XMLNS_NAMESPACE, EMPTY_NAMESPACE}
    /\ InScopeBinding(tree, i, tree[i].attributes[k].prefix)
          # tree[i].attributes[k].namespaceURI
    /\ \E prefix \in ScopePrefixes :
          InScopeBinding(tree, i, prefix) = tree[i].attributes[k].namespaceURI

\* The declarations of prefixes on an element
PrefixDeclarationsOf(element) ==
    SelectSeq(element.attributes,
              LAMBDA attrNode : attrNode.namespaceURI = XMLNS_NAMESPACE
                                /\ attrNode.prefix = "xmlns")

\* C24: an attribute in a real namespace whose own prefix is not correctly
\* bound in scope, while some prefix in scope is bound to its namespace, is
\* rebound to that prefix: the normalization completes, the attribute ends
\* with a prefix the scope binds to its namespace, and no declaration is
\* made for it
C24_RebindToExistingPrefix ==
    (/\ ns_calls # << >>
     /\ LegalTree(dom_before)
     /\ \E k \in 1..Len(dom_before[Last(ns_calls)].attributes) :
           NeedsRebinding(dom_before, Last(ns_calls), k))
       => /\ ns_error = "none"
          /\ BoundInScope(dom, Last(ns_calls))
          /\ Len(PrefixDeclarationsOf(dom[Last(ns_calls)]))
                <= Len(PrefixDeclarationsOf(dom_before[Last(ns_calls)]))

\* The attributes of an element that are no declarations
NonDeclarations(element) ==
    SelectSeq(element.attributes,
              LAMBDA attrNode : attrNode.namespaceURI # XMLNS_NAMESPACE)

\* Element i of the tree before the call declared a prefix with the very
\* namespace its ancestors, as the call has left them, bind the prefix to
DuplicateDeclaration(before, after, i, prefix) ==
    /\ DeclarationsOf(before[i], prefix) # << >>
    /\ InScopeBinding(SubSeq(after, 1, i - 1) \o << before[i] >>, i, prefix)
          = InScopeBinding(after, i - 1, prefix)

\* C25: with strip_dups set, a declaration of an element that binds a prefix
\* to the namespace the prefix is bound to by its ancestors is removed from
\* the element (the element is left with no declaration that repeats the
\* inherited binding), and the namespace of the element, of every element below it
\* and of their attributes is the same before and after: the nodes keep
\* their namespaces and prefixes, and the scope still binds these prefixes to
\* these namespaces
C25_StripDuplicates ==
    (ns_calls # << >> /\ ns_error = "none" /\ strip_dups) =>
        \A i \in Last(ns_calls)..Len(dom) :
            /\ \A prefix \in {None} \cup ScopePrefixes :
                   DuplicateDeclaration(dom_before, dom, i, prefix)
                      => ~DuplicateDeclaration(dom, dom, i, prefix)
            /\ dom[i].prefix = dom_before[i].prefix
            /\ dom[i].namespaceURI = dom_before[i].namespaceURI
            /\ NonDeclarations(dom[i]) = NonDeclarations(dom_before[i])
            /\ BoundInScope(dom, i)

\* The inverse map of a scope agrees with its forward map: the prefix it
\* gives for a namespace it has is bound to that namespace
InverseAgrees(scope) ==
    \A namespace \in ScopeNamespaces :
        has_namespace(scope, namespace)
           => /\ has_prefix(scope, prefix_from_namespace(scope, namespace))
              /\ scope.prefixes[prefix_from_namespace(scope, namespace)] = namespace

\* C29: after any sequence of update, item assignment and copy on a
\* NamespaceScope the no-prefix key is bound and the inverse map agrees with
\* the forward map: for every namespace the scope has, the prefix it returns
\* for the namespace is bound to that namespace, also after a prefix has
\* been bound to another namespace
C29_InverseMapAgrees ==
    \A obj \in 1..2 :
        /\ has_prefix(scopes[obj], None)
        /\ InverseAgrees(scopes[obj])

(***************************************************************************)
(* C26.  rewrite_links visits every element of the tree once; for each     *)
(* criterion, in list order, that matches the element (a None element      *)
(* pattern matches any element, a None namespace is ignored, the local     *)
(* names are equal) and, for an attribute criterion, for each matching     *)
(* attribute, it calls the callback exactly once with the current value of *)
(* the target and writes the returned URL back in place; when several      *)
(* criteria match one target each is applied, and the value written last   *)
(* is the final one.  With a callback that appends the mark of its         *)
(* criterion: every target ends as its original value followed by the      *)
(* marks of the criteria that match it, in list order, everything else is  *)
(* as it was, and the calls are, element by element in document order,     *)
(* criterion by criterion, the values so built.                            *)
(***************************************************************************)
PatternMatches(pattern, namespaceURI, localName) ==
    /\ pattern[1] = None \/ pattern[1] = namespaceURI
    /\ pattern[2] = localName

\* target 0 is the text content of the element, target i its i-th attribute
AppliesTo(criterion, element, target) ==
    /\ \/ criterion.elem = NonePattern
       \/ PatternMatches(criterion.elem, element.namespaceURI, element.localName)
    /\ IF target = 0 THEN criterion.attr = NonePattern
       ELSE /\ criterion.attr # NonePattern
            /\ PatternMatches(criterion.attr, element.attributes[target].namespaceURI,
                              element.attributes[target].localName)

MarksOf(criteria, element, target) ==
    [k \in 1..Len(SelectSeq(criteria, LAMBDA c : AppliesTo(c, element, target))) |->
        SelectSeq(criteria, LAMBDA c : AppliesTo(c, element, target))[k].mark]

OriginalValue(element, target) ==
    IF target = 0 THEN Strip(getChildText(element.childNodes), " ")
    ELSE element.attributes[target].value

ElementChildren(element) == SelectSeq(element.childNodes, LAMBDA n : n.nodeType = "element")
TextChildren(element) == SelectSeq(element.childNodes, LAMBDA n : n.nodeType = "text")

RECURSIVE Rewritten(_, _, _)
Rewritten(before, after, criteria) ==
    /\ after.nodeType = "element"
    /\ after.namespaceURI = before.namespaceURI
    /\ after.localName = before.localName
    /\ Len(after.attributes) = Len(before.attributes)
    /\ \A i \in 1..Len(before.attributes) :
          /\ after.attributes[i].namespaceURI = before.attributes[i].namespaceURI
          /\ after.attributes[i].localName = before.attributes[i].localName
          /\ after.attributes[i].value =
                 before.attributes[i].value \o MarksOf(criteria, before, i)
    /\ IF MarksOf(criteria, before, 0) = << >>
       THEN /\ Len(after.childNodes) = Len(before.childNodes)
            /\ \A i \in 1..Len(before.childNodes) :
                  before.childNodes[i].nodeType = "text"
                      => after.childNodes[i] = before.childNodes[i]
       ELSE /\ TextChildren(after) =
                   << TextNode(OriginalValue(before, 0) \o MarksOf(criteria, before, 0)) >>
            /\ after.childNodes[Len(after.childNodes)].nodeType = "text"
    /\ Len(ElementChildren(after)) = Len(ElementChildren(before))
    /\ \A i \in 1..Len(ElementChildren(before)) :
          Rewritten(ElementChildren(before)[i], ElementChildren(after)[i], criteria)

\* The calls one criterion causes on one element, from target on
RECURSIVE CallsOfCriterion(_, _, _, _)
CallsOfCriterion(criteria, k, element, target) ==
    IF target > Len(element.attributes) THEN << >>
    ELSE (IF AppliesTo(criteria[k], element, target)
          THEN << << OriginalValue(element, target)
                        \o MarksOf(SubSeq(criteria, 1, k - 1), element, target),
                     criteria[k].mark >> >>
          ELSE << >>)
         \o (IF target = 0 THEN << >>
             ELSE CallsOfCriterion(criteria, k, element, target + 1))

RECURSIVE CallsOnElement(_, _, _)
CallsOnElement(criteria, k, element) ==
    IF k > Len(criteria) THEN << >>
    ELSE CallsOfCriterion(criteria, k, element,
                          IF criteria[k].attr = NonePattern THEN 0 ELSE 1)
         \o CallsOnElement(criteria, k + 1, element)

RECURSIVE ExpectedCalls(_, _)
RECURSIVE ExpectedCallsOfChildren(_, _)
ExpectedCallsOfChildren(criteria, elements) ==
    IF elements = << >> THEN << >>
    ELSE ExpectedCalls(criteria, elements[1])
         \o ExpectedCallsOfChildren(criteria, Tail(elements))
ExpectedCalls(criteria, element) ==
    CallsOnElement(criteria, 1, element)
    \o ExpectedCallsOfChildren(criteria, ElementChildren(element))

C26_EveryMatchRewrittenInOrder ==
    (lr_done /\ lr_before # NoDocument)
        => /\ Rewritten(lr_before, lr_doc, lr_criteria)
           /\ lr_calls = ExpectedCalls(lr_criteria, lr_before)

\* An href that two criteria match carries both marks, in list order, and
\* a text that two criteria match has moved behind the child elements
C26_Witness ==
    /\ lr_done
    /\ lr_before # NoDocument
    /\ \/ /\ lr_criteria = << AnyHref, AHref >>
          /\ Len(lr_doc.attributes) = 1
          /\ lr_doc.attributes[1].value = << "u", "href", "a.href" >>
          /\ Len(lr_calls) >= 3
       \/ /\ lr_criteria = << XaText, AnyText, XaText >>
          /\ lr_doc.namespaceURI = "X"
          /\ Len(lr_doc.childNodes) = 2
          /\ lr_doc.childNodes[2] = TextNode(<< "s", "e", "x:a", "text", "x:a" >>)

\* The elements of a tree that a callback is registered for and that are in
\* no other such element
RECURSIVE TopMatched(_)
TopMatched(element) ==
    IF element.nodeType # "element" THEN {}
    ELSE IF callback_of(element) # None THEN {element}
    ELSE UNION {TopMatched(element.childNodes[i]) : i \in 1..Len(element.childNodes)}

(***************************************************************************)
(* C27.  register_callback without a local name succeeds and associates    *)
(* the callback with every element of the namespace; a second callback for *)
(* a key that has one is rejected and leaves the registry as it was; and   *)
(* in the pass the callback invoked on an element is the one registered    *)
(* for its name when there is one, the one of its namespace otherwise.     *)
(***************************************************************************)
C27_NamespaceWideCallback ==
    [][
        /\ \A callback \in CallbackNames, name \in {None, "math", "note"} :
               RegisterCallback(callback, PLACEHOLDERS_NAMESPACE, name)
                   => IF name = None
                      THEN IF PLACEHOLDERS_NAMESPACE \in DOMAIN namespace_callbacks
                           THEN /\ ph_error' = "ValueError"
                                /\ UNCHANGED << element_callbacks, namespace_callbacks >>
                           ELSE /\ ph_error' = "none"
                                /\ namespace_callbacks' =
                                       Put(namespace_callbacks, PLACEHOLDERS_NAMESPACE, callback)
                                /\ UNCHANGED element_callbacks
                      ELSE IF << PLACEHOLDERS_NAMESPACE, name >> \in DOMAIN element_callbacks
                           THEN /\ ph_error' = "ValueError"
                                /\ UNCHANGED << element_callbacks, namespace_callbacks >>
                           ELSE /\ ph_error' = "none"
                                /\ element_callbacks' =
                                       Put(element_callbacks,
                                           << PLACEHOLDERS_NAMESPACE, name >>, callback)
                                /\ UNCHANGED namespace_callbacks
        /\ ProcessPlaceholders
              => \A k \in 1..Len(ph_calls') :
                    \E element \in TopMatched(ph_before) :
                       /\ element.id = ph_calls'[k][2]
                       /\ ph_calls'[k][1] =
                              IF << element.namespaceURI, element.localName >>
                                     \in DOMAIN element_callbacks
                              THEN element_callbacks[<< element.namespaceURI,
                                                        element.localName >>]
                              ELSE namespace_callbacks[element.namespaceURI]
    ]_vars

\* The tree the signals of the matched elements ask for
RECURSIVE Applied(_)
RECURSIVE AppliedToAll(_)
AppliedToAll(nodes) ==
    IF nodes = << >> THEN << >>
    ELSE Applied(nodes[1]) \o AppliedToAll(Tail(nodes))
Applied(node) ==
    IF node.nodeType # "element" THEN << node >>
    ELSE IF callback_of(node) # None THEN invoke_callback(node)
    ELSE << [node EXCEPT !.childNodes = AppliedToAll(@)] >>

(***************************************************************************)
(* C28.  After the placeholder pass every element of the original tree     *)
(* that matches a registered callback and is in no other matched element   *)
(* has had its callback invoked exactly once and the outcome it signalled  *)
(* applied, whatever its preceding siblings signalled: no matching sibling *)
(* is skipped because an earlier one was removed.                          *)
(***************************************************************************)
C28_EveryPlaceholderHandled ==
    (ph_done /\ ph_before # NoContent)
        => /\ \A element \in TopMatched(ph_before) :
                 Cardinality({k \in 1..Len(ph_calls) :
                                  ph_calls[k][2] = element.id}) = 1
           /\ ph_content = Applied(ph_before)[1]

(***************************************************************************)
(* C30.  _filter_copy_head moves every child node that remains in the      *)
(* imported content head, after the title is removed and the               *)
(* generate_page:filter_head filters have run, into the head of the        *)
(* template, in the original order, and leaves none behind.                *)
(***************************************************************************)
C30_AllRemainingMoved ==
    (head_done /\ head_src # << >> /\ head_error = "none")
        => /\ head_dest = TemplateHead
                          \o SelectSeq(head_src,
                                 LAMBDA n : n # "title" /\ n \notin head_filtered)
           /\ head_tmp = << >>

(***************************************************************************)
(* Specifications: one per subsystem, the others at rest                   *)
(***************************************************************************)

InitUrl == UrlInit /\ SoupIdle /\ NsIdle /\ BuildIdle /\ TexInit /\ ScopeInit /\ LrIdle /\ PhIdle /\ HeadIdle
InitSoup == UrlInit /\ SoupInit /\ NsIdle /\ BuildIdle /\ TexInit /\ ScopeInit /\ LrIdle /\ PhIdle /\ HeadIdle
InitNs == UrlInit /\ SoupIdle /\ NsInit /\ BuildIdle /\ TexInit /\ ScopeInit /\ LrIdle /\ PhIdle /\ HeadIdle
InitBuild == UrlInit /\ SoupIdle /\ NsIdle /\ BuildInit /\ TexInit /\ ScopeInit /\ LrIdle /\ PhIdle /\ HeadIdle
InitTex == UrlInit /\ SoupIdle /\ NsIdle /\ BuildIdle /\ TexInit /\ ScopeInit /\ LrIdle /\ PhIdle /\ HeadIdle
InitScope == UrlInit /\ SoupIdle /\ NsIdle /\ BuildIdle /\ TexInit /\ ScopeInit /\ LrIdle /\ PhIdle /\ HeadIdle
InitLr == UrlInit /\ SoupIdle /\ NsIdle /\ BuildIdle /\ TexInit /\ ScopeInit /\ LrInit /\ PhIdle /\ HeadIdle
InitPh == UrlInit /\ SoupIdle /\ NsIdle /\ BuildIdle /\ TexInit /\ ScopeInit /\ LrIdle /\ PhInit /\ HeadIdle
InitHead == UrlInit /\ SoupIdle /\ NsIdle /\ BuildIdle /\ TexInit /\ ScopeInit /\ LrIdle /\ PhIdle /\ HeadInit

SpecUrl == InitUrl /\ [][UrlNext]_vars
SpecSoup == InitSoup /\ [][SoupNext]_vars
SpecNs == InitNs /\ [][NsNext]_vars
SpecBuild == InitBuild /\ [][BuildNext]_vars
SpecTex == InitTex /\ [][TexNext]_vars
SpecTexCorrupt == InitTex /\ [][TexCorruptNext]_vars
SpecScope == InitScope /\ [][ScopeNext]_vars
SpecLr == InitLr /\ [][LrNext]_vars
SpecPh == InitPh /\ [][PhNext]_vars
SpecHead == InitHead /\ [][HeadNext]_vars
====
